---- MODULE Spec2Model ----
(***************************************************************************)
(* Model of the column-to-field mapping engine of kendal-contact-importer: *)
(*   lib/mapping/synonymDictionary.ts  (normalizeString, FIELD_SYNONYMS)   *)
(*   lib/mapping/patternValidators.ts  (content classifiers)               *)
(*   lib/mapping/fieldMapper.ts        (FieldMapper)                       *)
(*   lib/mapping/agentEmailDetector.ts (detectAgentEmailColumn)            *)
(*   components/import-contacts-modal.tsx (resolveDuplicateSuggestions)    *)
(*                                                                         *)
(* JavaScript strings are written as TLA+ strings in the state and turned  *)
(* into sequences of one-character strings (Chars) wherever the code looks *)
(* inside them.  Fractions the code computes in floating point are kept as *)
(* pairs <<numerator, denominator>> and compared by cross-multiplication.  *)
(***************************************************************************)
EXTENDS Integers, Sequences, FiniteSets, TLC

VARIABLES
    pc,            \* position of the run that is being modelled
    nsInput,       \* normalizeString: the argument
    nsOnce,        \* normalizeString(nsInput)
    nsTwice,       \* normalizeString(normalizeString(nsInput))
    looseDates,    \* whether the host's Date parser accepts non-ISO text that holds digits
    scHeader,      \* createMatch: the header argument
    scData,        \* createMatch: the columnData argument
    scField,       \* createMatch: the field argument
    scHeaderScore, \* calculateScoreContext: score and reason before the pattern adjustment
    scContext,     \* the ScoreContext calculateScoreContext returned
    scMatch,       \* the FieldMatch createMatch returned (NoMatch for null)
    systemFields,  \* FieldMapper.systemFields
    headers,       \* mapColumns: headers
    sampleData,    \* mapColumns: sampleData (rows of cells)
    mappings,      \* what mapColumns returned
    resolved,      \* what resolveDuplicateSuggestions returned
    simStr1,       \* calculateStringSimilarity: str1
    simStr2,       \* calculateStringSimilarity: str2
    simResult,     \* the similarity returned, as a fraction
    pvKind,        \* which classifier of patternValidators.ts is called
    pvValues,      \* the classifier's values argument
    pvResult,      \* the confidence the classifier returned, as a fraction
    priorHeaders,  \* headers of an unrelated mapColumns call on the same FieldMapper
    priorData,     \* sampleData of that call
    priorMappings, \* what that call returned
    claimedIds,    \* mapColumns' autoAssignedIds, as the last call on the instance left it
    rerun,         \* what mapColumns returned when called again with headers, sampleData
    agHeaders,     \* detectAgentEmailColumn: headers
    agRows,        \* detectAgentEmailColumn: rowMatrix
    agResult,      \* what detectAgentEmailColumn returned (NoAgent for null)
    payload,       \* contacts import POST: the request body
    users,         \* the company's users collection, in snapshot order
    contacts,      \* the company's contacts collection
    contactsBefore,\* the contacts collection when the request arrived
    importRows,    \* POST: rows, as normalizeRows returned them
    detectedAgentColumn, \* POST: detectedAgentColumn
    rowIndex,      \* position of the for-of loop in rows
    lookupStage,   \* which runLookup of findExistingContact is in flight
    existingContact, \* id of the document findExistingContact returned (NoDoc for null)
    imported,      \* POST: imported
    merged,        \* POST: merged
    skipped,       \* POST: skipped
    batch,         \* operations of the open WriteBatch
    operationsInBatch, \* POST: operationsInBatch
    batches,       \* POST: batches, each with its operations and the state of its promise
    nextDocId,     \* the id the next contactsCollection.doc() returns
    response       \* the response of the request (NoResponse until it is sent)

vars == <<pc, looseDates, nsInput, nsOnce, nsTwice, scHeader, scData, scField,
          scHeaderScore, scContext, scMatch, systemFields, headers, sampleData,
          mappings, resolved, simStr1, simStr2, simResult, pvKind, pvValues, pvResult,
          priorHeaders, priorData, priorMappings, claimedIds, rerun, agHeaders, agRows, agResult,
          payload, users, contacts, contactsBefore, importRows, detectedAgentColumn,
          rowIndex, lookupStage, existingContact, imported, merged, skipped, batch,
          operationsInBatch, batches, nextDocId, response>>

nsVars == <<nsInput, nsOnce, nsTwice>>
scVars == <<scHeader, scData, scField, scHeaderScore, scContext, scMatch>>
mapVars == <<systemFields, headers, sampleData, mappings, resolved>>
simVars == <<simStr1, simStr2, simResult>>
pvVars == <<pvKind, pvValues, pvResult>>
rerunVars == <<priorHeaders, priorData, priorMappings, claimedIds, rerun>>
agVars == <<agHeaders, agRows, agResult>>
\* the variables of the runs that the normalizeString, createMatch and pipeline
\* specifications leave alone
importVars == <<payload, users, contacts, contactsBefore, importRows, detectedAgentColumn,
                rowIndex, lookupStage, existingContact, imported, merged, skipped, batch,
                operationsInBatch, batches, nextDocId, response>>
otherVars == <<simVars, pvVars, rerunVars, agVars, importVars>>

(***************************************************************************)
(* Bounds of the model.                                                    *)
(***************************************************************************)
MaxStrLen == 3
MaxCols == 3

(***************************************************************************)
(* Characters and strings.                                                 *)
(***************************************************************************)
Chars(s) == [i \in 1..Len(s) |-> SubSeq(s, i, i)]

UpperChars == Chars("ABCDEFGHIJKLMNOPQRSTUVWXYZ")
LowerChars == Chars("abcdefghijklmnopqrstuvwxyz")
DigitChars == Chars("0123456789")

Range(f) == {f[i] : i \in DOMAIN f}

UpperSet == Range(UpperChars)
DigitSet == Range(DigitChars)
\* /\s/ restricted to the white space the model's inputs use
SpaceSet == {" ", "\t", "\n"}
\* /\w/ : [A-Za-z0-9_]
WordSet == UpperSet \cup Range(LowerChars) \cup DigitSet \cup {"_"}
\* /[_\-\s]/
SeparatorSet == {"_", "-"} \cup SpaceSet
LowerOf == [c \in UpperSet |-> LowerChars[CHOOSE k \in 1..Len(UpperChars) : UpperChars[k] = c]]

IsSpace(c) == c \in SpaceSet
IsDigit(c) == c \in DigitSet
IsWord(c) == c \in WordSet
IsSeparator(c) == c \in SeparatorSet

toLowerCase(cs) ==
    [i \in 1..Len(cs) |-> IF cs[i] \in UpperSet THEN LowerOf[cs[i]] ELSE cs[i]]

trim(cs) ==
    LET leading == Cardinality({i \in 1..Len(cs) : \A j \in 1..i : cs[j] \in SpaceSet})
        trailing == Cardinality({i \in 1..Len(cs) : \A j \in i..Len(cs) : cs[j] \in SpaceSet})
    IN  IF leading = Len(cs) THEN <<>> ELSE SubSeq(cs, leading + 1, Len(cs) - trailing)

\* .replace(/[_\-\s]+/g, " ") : every maximal run of separators becomes one space
collapseSeparators(cs) ==
    LET idx == [i \in 1..Len(cs) |-> i]
        Kept(i) == ~IsSeparator(cs[i]) \/ i = 1 \/ ~IsSeparator(cs[i - 1])
        kept == SelectSeq(idx, Kept)
    IN  [k \in 1..Len(kept) |-> IF IsSeparator(cs[kept[k]]) THEN " " ELSE cs[kept[k]]]

\* .replace(/[^\w\s]/g, "") : drop what is neither a word character nor white space
stripPunctuation(cs) ==
    LET Stays(c) == IsWord(c) \/ IsSpace(c)
    IN  SelectSeq(cs, Stays)

normalizeString(cs) == stripPunctuation(collapseSeparators(trim(toLowerCase(cs))))

\* String.prototype.includes
includes(hay, needle) ==
    \E i \in 0..(Len(hay) - Len(needle)) :
        \A j \in 1..Len(needle) : hay[i + j] = needle[j]

\* null (a match reason that was never set, a selectedField that is not set)
Null == "<null>"
\* createMatch returning null: no FieldMatch
\* detectAgentEmailColumn's null
NoAgent == [header |-> Null, index |-> -1, score |-> 0, headerScore |-> 0, patternScore |-> <<0, 1>>]
NoMatch == [systemFieldId |-> Null, systemFieldLabel |-> Null, confidence |-> Null,
            score |-> 0, matchReason |-> Null]

(***************************************************************************)
(* Fractions.  A score in [0,1] is the pair <<matches, total>>; for the    *)
(* sample sizes of the code (at most 100 values) the floating-point        *)
(* comparisons of the code agree with the exact ones below.                *)
(***************************************************************************)
Zero == <<0, 1>>
RatioGT(r, q) == r[1] * q[2] > q[1] * r[2]
RatioLT(r, q) == r[1] * q[2] < q[1] * r[2]
RatioEQ(r, q) == r[1] * q[2] = q[1] * r[2]

(***************************************************************************)
(* patternValidators.ts                                                    *)
(***************************************************************************)
getNonEmpty(values) ==
    LET Filled(v) == v # "" /\ Len(trim(Chars(v))) > 0
    IN  SelectSeq(values, Filled)

\* nonEmptyCount / totalCount <= 1 - EMPTY_THRESHOLD.  In IEEE doubles 1 - 0.9 is
\* 0.09999999999999998, just below 0.1: a ratio of exactly one tenth is above it.
shouldSkip(nonEmptyCount, totalCount) ==
    totalCount = 0 \/ nonEmptyCount * 10 < totalCount

\* /^[^\s@]+@[^\s@]+\.[^\s@]+$/
emailRegexTest(cs) ==
    /\ \A i \in 1..Len(cs) : ~IsSpace(cs[i])
    /\ Cardinality({i \in 1..Len(cs) : cs[i] = "@"}) = 1
    /\ LET at == CHOOSE i \in 1..Len(cs) : cs[i] = "@"
       IN  /\ at > 1
           /\ \E dot \in (at + 2)..(Len(cs) - 1) : cs[dot] = "."

\* One optional character of the class: the positions the match may stand at.
OptionalChar(cs, starts, class) ==
    starts \cup {p + 1 : p \in {q \in starts : q <= Len(cs) /\ cs[q] \in class}}

\* [0-9]{lo,hi}
DigitRun(cs, starts, lo, hi) ==
    {e \in 1..(Len(cs) + 1) :
        \E p \in starts : e - p \in lo..hi /\ \A j \in p..(e - 1) : IsDigit(cs[j])}

\* /^[\+]?[(]?[0-9]{1,4}[)]?[-\s\.]?[(]?[0-9]{1,4}[)]?[-\s\.]?[0-9]{1,4}[-\s\.]?[0-9]{1,9}$/
phoneRegexTest(cs) ==
    LET sepClass == {"-", ".", " ", "\t", "\n"}
        p1 == OptionalChar(cs, {1}, {"+"})
        p2 == OptionalChar(cs, p1, {"("})
        p3 == DigitRun(cs, p2, 1, 4)
        p4 == OptionalChar(cs, p3, {")"})
        p5 == OptionalChar(cs, p4, sepClass)
        p6 == OptionalChar(cs, p5, {"("})
        p7 == DigitRun(cs, p6, 1, 4)
        p8 == OptionalChar(cs, p7, {")"})
        p9 == OptionalChar(cs, p8, sepClass)
        p10 == DigitRun(cs, p9, 1, 4)
        p11 == OptionalChar(cs, p10, sepClass)
        p12 == DigitRun(cs, p11, 1, 9)
    IN  (Len(cs) + 1) \in p12

\* value.replace(/[\s\-\(\)\.]/g, "")
cleanPhone(cs) ==
    LET Stays(c) == ~(IsSpace(c) \/ c \in {"-", "(", ")", "."})
    IN  SelectSeq(cs, Stays)

isPhone(v) == phoneRegexTest(trim(Chars(v))) /\ Len(cleanPhone(Chars(v))) >= 10

\* YYYY-MM-DD of the ECMAScript date-time string format, month 01..12, day 01..31
isIsoDate(cs) ==
    /\ Len(cs) = 10
    /\ cs[5] = "-" /\ cs[8] = "-"
    /\ \A i \in {1, 2, 3, 4, 6, 7, 9, 10} : IsDigit(cs[i])
    /\ <<cs[6], cs[7]>> \in {<<"0", d>> : d \in DigitSet \ {"0"}}
                            \cup {<<"1", "0">>, <<"1", "1">>, <<"1", "2">>}
    /\ cs[9] \in {"0", "1", "2", "3"}
    /\ <<cs[9], cs[10]>> # <<"0", "0">>
    /\ cs[9] = "3" => cs[10] \in {"0", "1"}

\* !Number.isNaN(new Date(value).getTime()).  Text in the ECMAScript format parses;
\* text without any digit never does; what the host makes of other text that holds
\* digits is implementation-defined (looseDates).
isValidDate(v) ==
    LET cs == Chars(v)
    IN  \/ isIsoDate(cs)
        \/ looseDates /\ \E i \in 1..Len(cs) : IsDigit(cs[i])

\* Number.isFinite(parseFloat(value.replace(/,/g, ""))): after leading white space
\* and an optional sign, a digit, or a point followed by a digit
isNumeric(v) ==
    LET NotComma(c) == c # ","
        cs == SelectSeq(Chars(v), NotComma)
        solid == {i \in 1..Len(cs) : ~IsSpace(cs[i])}
        first == IF solid = {} THEN Len(cs) + 1
                 ELSE CHOOSE i \in solid : \A j \in solid : i <= j
        body == IF first <= Len(cs) /\ cs[first] \in {"+", "-"} THEN first + 1 ELSE first
    IN  \/ body <= Len(cs) /\ IsDigit(cs[body])
        \/ body + 1 <= Len(cs) /\ cs[body] = "." /\ IsDigit(cs[body + 1])

isEmail(v) == emailRegexTest(trim(Chars(v)))

\* the ratio taken over all values, blank ones included
matchRatioOverAll(values, nonEmpty, matches) ==
    IF shouldSkip(Len(nonEmpty), Len(values)) THEN Zero
    ELSE <<Len(matches), Len(values)>>

\* matches.length / nonEmpty.length, or 0 under the skip rule
matchRatio(values, nonEmpty, matches) ==
    IF shouldSkip(Len(nonEmpty), Len(values)) THEN Zero
    ELSE <<Len(matches), Len(nonEmpty)>>

validateEmailPattern(values) ==
    matchRatio(values, getNonEmpty(values), SelectSeq(getNonEmpty(values), isEmail))
validatePhonePattern(values) ==
    matchRatio(values, getNonEmpty(values), SelectSeq(getNonEmpty(values), isPhone))
validateDatePattern(values) ==
    matchRatio(values, getNonEmpty(values), SelectSeq(getNonEmpty(values), isValidDate))
validateNumberPattern(values) ==
    matchRatio(values, getNonEmpty(values), SelectSeq(getNonEmpty(values), isNumeric))

(***************************************************************************)
(* synonymDictionary.ts                                                    *)
(***************************************************************************)
FIELD_SYNONYMS ==
    [firstName |-> <<"first", "fname", "given name", "forename", "first name",
                     "given", "name first">>,
     lastName |-> <<"last", "lname", "surname", "family name", "last name",
                    "family", "name last">>,
     phone |-> <<"mobile", "cell", "telephone", "contact number", "phone number",
                 "mobile number", "cell phone", "phone no", "tel", "contact no">>,
     email |-> <<"e-mail", "email address", "mail", "e mail", "email addr",
                 "electronic mail">>,
     agentUid |-> <<"agent", "assigned to", "owner", "sales rep", "agent email",
                    "assigned agent", "account owner", "sales agent", "representative">>,
     createdOn |-> <<"created", "date created", "created date", "creation date",
                     "date added", "added on">>]

\* FIELD_SYNONYMS[fieldId] ?? []
synonymsOf(fieldId) ==
    IF fieldId \in DOMAIN FIELD_SYNONYMS THEN FIELD_SYNONYMS[fieldId] ELSE <<>>

\* normalizeString(synonym) of every entry, computed once
normalizedSynonyms ==
    [id \in DOMAIN FIELD_SYNONYMS |->
        [i \in DOMAIN FIELD_SYNONYMS[id] |-> normalizeString(Chars(FIELD_SYNONYMS[id][i]))]]

(***************************************************************************)
(* fieldMapper.ts                                                          *)
(***************************************************************************)
HIGH_CONFIDENCE_THRESHOLD == 75
MEDIUM_CONFIDENCE_THRESHOLD == 50
STRONG_PATTERN_THRESHOLD == <<4, 5>>
WEAK_PATTERN_THRESHOLD == <<3, 10>>
FULL_NAME_TOKENS == <<"full name", "fullname">>

NoSynonym == [score |-> 0, reason |-> Null]
NoContext == [baseReason |-> Null, baseScore |-> 0, patternScore |-> Zero]

\* The loop of getSynonymMatchScore from entry i on: the first entry that equals
\* the header, contains it or is contained in it decides.
RECURSIVE synonymScan(_, _, _)
synonymScan(normalizedHeader, fieldId, i) ==
    IF i > Len(synonymsOf(fieldId)) THEN NoSynonym
    ELSE LET synonym == synonymsOf(fieldId)[i]
             normalizedSynonym == normalizedSynonyms[fieldId][i]
             reason == "Synonym match: \"" \o synonym \o "\""
         IN  IF normalizedSynonym = normalizedHeader
             THEN [score |-> 75, reason |-> reason]
             ELSE IF includes(normalizedHeader, normalizedSynonym)
                     \/ includes(normalizedSynonym, normalizedHeader)
             THEN [score |-> 65, reason |-> reason]
             ELSE synonymScan(normalizedHeader, fieldId, i + 1)

getSynonymMatchScore(normalizedHeader, fieldId) ==
    synonymScan(normalizedHeader, fieldId, 1)

getBigrams(value) == [i \in 1..(Len(value) - 1) |-> <<value[i], value[i + 1]>>]

\* the Dice coefficient over the sets of bigrams
similarityOfBigramSets(str1, str2) ==
    IF Len(str1) < 2 \/ Len(str2) < 2 THEN Zero
    ELSE <<2 * Cardinality(Range(getBigrams(str1)) \cap Range(getBigrams(str2))),
           Len(getBigrams(str1)) + Len(getBigrams(str2))>>

\* (2 * intersection.length) / (bigrams1.length + bigrams2.length), as a fraction
calculateStringSimilarity(str1, str2) ==
    IF Len(str1) = 0 \/ Len(str2) = 0 THEN Zero
    ELSE LET bigrams1 == getBigrams(str1)
             bigrams2 == getBigrams(str2)
             InSecond(bigram) == bigram \in Range(bigrams2)
             intersection == SelectSeq(bigrams1, InSecond)
         IN  IF Len(bigrams1) = 0 \/ Len(bigrams2) = 0 THEN Zero
             ELSE <<2 * Len(intersection), Len(bigrams1) + Len(bigrams2)>>

validateDataPattern(data, fieldType) ==
    LET sample == SubSeq(data, 1, IF Len(data) < 100 THEN Len(data) ELSE 100)
    IN  CASE fieldType = "email" -> validateEmailPattern(sample)
          [] fieldType = "phone" -> validatePhonePattern(sample)
          [] fieldType = "datetime" -> validateDatePattern(sample)
          [] fieldType = "number" -> validateNumberPattern(sample)
          [] OTHER -> <<1, 2>>

\* tiers that start above the thresholds
getConfidenceAbove(score) ==
    IF score > HIGH_CONFIDENCE_THRESHOLD THEN "high"
    ELSE IF score > MEDIUM_CONFIDENCE_THRESHOLD THEN "medium"
    ELSE "low"

getConfidence(score) ==
    IF score >= HIGH_CONFIDENCE_THRESHOLD THEN "high"
    ELSE IF score >= MEDIUM_CONFIDENCE_THRESHOLD THEN "medium"
    ELSE "low"

\* Math.floor(patternScore * 100) is called with patternScore > 0.8 only, where the
\* floating-point product and the exact quotient have the same floor.
getPatternReason(type, patternScore) ==
    IF ~RatioGT(patternScore, Zero) THEN Null
    ELSE LET percent == ToString((patternScore[1] * 100) \div patternScore[2])
         IN  CASE type = "email" -> "Strong email pattern (" \o percent \o "% match)"
               [] type = "phone" -> "Strong phone pattern (" \o percent \o "% match)"
               [] type = "datetime" -> "Strong date pattern (" \o percent \o "% match)"
               [] type = "number" -> "Strong numeric pattern (" \o percent \o "% match)"
               [] OTHER -> Null

\* calculateScoreContext, lines 140-158: exact, containment, synonym
namedScore(normalizedHeader, normalizedLabel, fieldId) ==
    IF normalizedHeader = normalizedLabel
    THEN [score |-> 100, reason |-> "Exact header match"]
    ELSE IF includes(normalizedHeader, normalizedLabel)
            \/ includes(normalizedLabel, normalizedHeader)
    THEN [score |-> 80, reason |-> "Similar header match"]
    ELSE getSynonymMatchScore(normalizedHeader, fieldId)

\* calculateScoreContext, lines 160-169: the fuzzy fallback when the score is still 0
fuzzyFallback(named, similarity) ==
    IF named.score # 0 THEN named
    ELSE IF RatioGT(similarity, <<3, 5>>)
    THEN [score |-> (similarity[1] * 60) \div similarity[2],
          reason |-> "Similar header name"]
    ELSE named

\* calculateScoreContext, lines 133-169: the score and reason the header alone gives
headerScoreOf(normalizedHeader, normalizedLabel, fieldId) ==
    fuzzyFallback(namedScore(normalizedHeader, normalizedLabel, fieldId),
                  calculateStringSimilarity(normalizedHeader, normalizedLabel))

headerScore(header, field) ==
    headerScoreOf(normalizeString(Chars(header)), normalizeString(Chars(field.label)), field.id)

\* the boost without its Math.min(100, ...)
patternAdjustUncapped(named, fieldType, patternScore) ==
    IF RatioGT(patternScore, STRONG_PATTERN_THRESHOLD)
    THEN IF named.score >= 40
         THEN [score |-> named.score + 20, reason |-> named.reason]
         ELSE [score |-> 50, reason |-> getPatternReason(fieldType, patternScore)]
    ELSE IF named.score >= MEDIUM_CONFIDENCE_THRESHOLD /\ RatioGT(patternScore, Zero)
            /\ RatioLT(patternScore, WEAK_PATTERN_THRESHOLD)
    THEN [score |-> (named.score * 6) \div 10, reason |-> named.reason]
    ELSE named

\* calculateScoreContext, lines 171-186: the boost or the penalty of the content
patternAdjust(named, fieldType, patternScore) ==
    IF RatioGT(patternScore, STRONG_PATTERN_THRESHOLD)
    THEN IF named.score >= 40
         THEN [score |-> IF named.score + 20 < 100 THEN named.score + 20 ELSE 100,
               reason |-> named.reason]
         ELSE [score |-> 50, reason |-> getPatternReason(fieldType, patternScore)]
    ELSE IF named.score >= MEDIUM_CONFIDENCE_THRESHOLD /\ RatioGT(patternScore, Zero)
            /\ RatioLT(patternScore, WEAK_PATTERN_THRESHOLD)
    THEN [score |-> (named.score * 6) \div 10, reason |-> named.reason]
    ELSE named

scoreContextOf(final, patternScore) ==
    [baseReason |-> final.reason, baseScore |-> final.score, patternScore |-> patternScore]

adjustedContext(named, fieldType, patternScore) ==
    scoreContextOf(patternAdjust(named, fieldType, patternScore), patternScore)

contextFrom(normalizedHeader, columnData, field) ==
    IF Len(normalizedHeader) = 0
    THEN [baseReason |-> Null, baseScore |-> 0, patternScore |-> Zero]
    ELSE adjustedContext(headerScoreOf(normalizedHeader, normalizeString(Chars(field.label)),
                                       field.id),
                         field.type, validateDataPattern(columnData, field.type))

calculateScoreContext(header, columnData, field) ==
    contextFrom(normalizeString(Chars(header)), columnData, field)

isFullNameHeader(normalizedHeader) ==
    \E k \in DOMAIN FULL_NAME_TOKENS : includes(normalizedHeader, Chars(FULL_NAME_TOKENS[k]))

\* matchReason: baseReason ?? getPatternReason(...) ?? "Possible match"
matchReasonOf(baseReason, patternReason) ==
    IF baseReason # Null THEN baseReason
    ELSE IF patternReason # Null THEN patternReason
    ELSE "Possible match"

\* createMatch with the full-name exclusion kept for firstName alone
matchFromFirstNameOnly(normalizedHeader, context, field) ==
    IF isFullNameHeader(normalizedHeader) /\ field.id = "firstName"
    THEN NoMatch
    ELSE IF context.baseScore <= 0 THEN NoMatch
    ELSE [systemFieldId |-> field.id,
          systemFieldLabel |-> field.label,
          confidence |-> getConfidence(context.baseScore),
          score |-> context.baseScore,
          matchReason |-> matchReasonOf(context.baseReason,
                                        getPatternReason(field.type, context.patternScore))]

\* createMatch, lines 95-122.  baseScore is an integer on every path of
\* calculateScoreContext, so Math.floor(baseScore) is baseScore.
matchFrom(normalizedHeader, context, field) ==
    IF isFullNameHeader(normalizedHeader) /\ field.id \in {"firstName", "lastName"}
    THEN NoMatch
    ELSE IF context.baseScore <= 0 THEN NoMatch
    ELSE [systemFieldId |-> field.id,
          systemFieldLabel |-> field.label,
          confidence |-> getConfidence(context.baseScore),
          score |-> context.baseScore,
          matchReason |-> matchReasonOf(context.baseReason,
                                        getPatternReason(field.type, context.patternScore))]

\* createMatch; NoMatch stands for null
createMatch(header, columnData, field) ==
    matchFrom(normalizeString(Chars(header)),
              calculateScoreContext(header, columnData, field), field)

\* the matches left in catalog order
keepCatalogOrder(matches) == matches

\* Array.prototype.sort((a, b) => b.score - a.score): stable, highest score first.
\* The match at position i comes after every match of a higher score and after the
\* matches of the same score that stood before it.
sortByScore(matches) ==
    LET rank(i) == 1 + Cardinality({j \in 1..Len(matches) :
                          \/ matches[j].score > matches[i].score
                          \/ matches[j].score = matches[i].score /\ j < i})
    IN  [p \in 1..Len(matches) |-> matches[CHOOSE i \in 1..Len(matches) : rank(i) = p]]

findMatches(fields, header, columnData) ==
    LET candidates == [k \in 1..Len(fields) |-> createMatch(header, columnData, fields[k])]
        Emitted(match) == match # NoMatch
    IN  sortByScore(SelectSeq(candidates, Emitted))

\* sampleData.map((row) => row[index] ?? ""), index counted from 1 here
columnDataOf(data, index) ==
    [r \in 1..Len(data) |-> IF index <= Len(data[r]) THEN data[r][index] ELSE ""]

\* the assignment test without its look at autoAssignedIds
mayAutoAssignIgnoringClaims(matches, autoAssignedIds) ==
    Len(matches) > 0 /\ matches[1].confidence = "high"

\* the assignment test without its look at the confidence
mayAutoAssignAnyConfidence(matches, autoAssignedIds) ==
    Len(matches) > 0 /\ matches[1].systemFieldId \notin autoAssignedIds

\* bestMatch && bestMatch.confidence === "high" && !autoAssignedIds.has(...)
mayAutoAssign(matches, autoAssignedIds) ==
    /\ Len(matches) > 0
    /\ matches[1].confidence = "high"
    /\ matches[1].systemFieldId \notin autoAssignedIds

firstN(seq, n) == SubSeq(seq, 1, IF Len(seq) < n THEN Len(seq) ELSE n)

\* a ColumnMapping numbered from 1
mappingOfOneBased(header, index, columnData, matches, autoAssignedIds) ==
    [csvColumn |-> header,
     csvIndex |-> index,
     selectedField |-> IF mayAutoAssign(matches, autoAssignedIds)
                       THEN matches[1].systemFieldId ELSE Null,
     suggestedMatches |-> firstN(matches, 3),
     isCustomField |-> Len(matches) = 0 \/ matches[1].score < 40,
     sampleData |-> firstN(columnData, 5)]

\* a ColumnMapping that does not suggest the fields earlier columns took
mappingOfUnclaimedOnly(header, index, columnData, matches, autoAssignedIds) ==
    LET Unclaimed(match) == match.systemFieldId \notin autoAssignedIds
        free == SelectSeq(matches, Unclaimed)
    IN  [csvColumn |-> header,
         csvIndex |-> index - 1,
         selectedField |-> IF mayAutoAssign(matches, autoAssignedIds)
                           THEN matches[1].systemFieldId ELSE Null,
         suggestedMatches |-> firstN(free, 3),
         isCustomField |-> Len(free) = 0 \/ free[1].score < 40,
         sampleData |-> firstN(columnData, 5)]

\* the ColumnMapping the callback of headers.map returns
mappingOf(header, index, columnData, matches, autoAssignedIds) ==
    [csvColumn |-> header,
     csvIndex |-> index - 1,
     selectedField |-> IF mayAutoAssign(matches, autoAssignedIds)
                       THEN matches[1].systemFieldId ELSE Null,
     suggestedMatches |-> firstN(matches, 3),
     isCustomField |-> Len(matches) = 0 \/ matches[1].score < 40,
     sampleData |-> firstN(columnData, 5)]

\* The callback of headers.map for the column at position index (csvIndex = index - 1).
mapColumnWith(fields, header, index, columnData, autoAssignedIds) ==
    mappingOf(header, index, columnData, findMatches(fields, header, columnData),
              autoAssignedIds)

mapColumn(fields, hs, data, index, autoAssignedIds) ==
    mapColumnWith(fields, hs[index], index, columnDataOf(data, index), autoAssignedIds)

\* autoAssignedIds.add(bestMatch.systemFieldId) when the column took its field
claimedAfter(mapping, autoAssignedIds) ==
    IF mapping.selectedField = Null THEN autoAssignedIds
    ELSE autoAssignedIds \cup {mapping.selectedField}

\* headers.map from position index on, autoAssignedIds growing from left to right
RECURSIVE mapColumnsFrom(_, _, _, _, _)
RECURSIVE mapRest(_, _, _, _, _, _)
mapRest(fields, hs, data, index, autoAssignedIds, mapping) ==
    <<mapping>> \o mapColumnsFrom(fields, hs, data, index + 1,
                                  claimedAfter(mapping, autoAssignedIds))

mapColumnsFrom(fields, hs, data, index, autoAssignedIds) ==
    IF index > Len(hs) THEN <<>>
    ELSE mapRest(fields, hs, data, index, autoAssignedIds,
                 mapColumn(fields, hs, data, index, autoAssignedIds))

mapColumns(fields, hs, data) == mapColumnsFrom(fields, hs, data, 1, {})

\* a set of claimed ids that lives on from call to call
keptAutoAssignedIds(left) == left

\* const autoAssignedIds = new Set<string>(): every call starts with an empty set,
\* whatever set the previous call on the instance left behind
newAutoAssignedIds(left) == {}

\* mapColumns called on an instance whose previous call left the set left
mapColumnsAfter(left, fields, hs, data) ==
    mapColumnsFrom(fields, hs, data, 1, newAutoAssignedIds(left))

\* autoAssignedIds when the call that returned ms ends
claimedWhenDone(left, ms) ==
    newAutoAssignedIds(left)
        \cup {ms[i].selectedField : i \in {k \in 1..Len(ms) : ms[k].selectedField # Null}}

(***************************************************************************)
(* agentEmailDetector.ts                                                   *)
(***************************************************************************)
EXACT_HEADER_MATCHES ==
    <<"agent email", "agentemail", "agent e mail", "agent_email", "assigned agent email",
      "assigned agent", "assigned_to_email", "assigned_to_agent", "assigned email",
      "agent contact email", "agentcontactemail", "advisor email", "advisor_email",
      "representative email", "rep email", "sales agent email", "account owner email">>

AGENT_TOKENS ==
    <<"agent", "advisor", "rep", "representative", "owner", "assignee", "assigned",
      "manager", "realtor", "broker">>

EMAIL_TOKENS == <<"email", "mail", "e", "address">>

MINIMUM_CONFIDENCE == 45

exactHeaders == {Chars(EXACT_HEADER_MATCHES[i]) : i \in 1..Len(EXACT_HEADER_MATCHES)}
agentTokens == {Chars(AGENT_TOKENS[i]) : i \in 1..Len(AGENT_TOKENS)}
emailTokens == {Chars(EMAIL_TOKENS[i]) : i \in 1..Len(EMAIL_TOKENS)}

\* [a-z0-9]
TokenSet == Range(LowerChars) \cup DigitSet

\* header.toLowerCase().split(/[^a-z0-9]+/g), empty pieces dropped: the maximal runs
\* of letters and digits, as a set (the code only asks whether some token is listed)
tokenize(header) ==
    LET cs == toLowerCase(Chars(header))
    IN  {SubSeq(cs, i, j) : <<i, j>> \in
            {<<a, b>> \in (1..Len(cs)) \X (1..Len(cs)) :
                /\ a <= b
                /\ \A k \in a..b : cs[k] \in TokenSet
                /\ a = 1 \/ cs[a - 1] \notin TokenSet
                /\ b = Len(cs) \/ cs[b + 1] \notin TokenSet}}

headerScoreFrom(normalized, hasAgentToken, hasEmailToken) ==
    IF Len(normalized) = 0 THEN 0
    ELSE IF normalized \in exactHeaders THEN 95
    ELSE IF hasAgentToken /\ hasEmailToken THEN 85
    ELSE IF hasAgentToken /\ includes(normalized, Chars("mail")) THEN 75
    ELSE IF includes(normalized, Chars("assigned")) /\ includes(normalized, Chars("agent"))
    THEN 70
    ELSE IF hasAgentToken THEN 55
    ELSE 0

scoreHeader(header) ==
    headerScoreFrom(normalizeString(Chars(header)),
                    tokenize(header) \cap agentTokens # {},
                    tokenize(header) \cap emailTokens # {})

\* a sequence of one-character strings as one string
RECURSIVE Join(_)
Join(cs) == IF Len(cs) = 0 THEN "" ELSE cs[1] \o Join(Tail(cs))

\* the cells of the column, trimmed, blank ones kept
getColumnCells(rows, columnIndex) ==
    [r \in 1..Len(rows) |->
        IF columnIndex <= Len(rows[r]) THEN Join(trim(Chars(rows[r][columnIndex]))) ELSE ""]

\* rows.map(row => (row[columnIndex] ?? "").trim()).filter(value => value.length > 0),
\* columnIndex counted from 1 here
getColumnSamples(rows, columnIndex) ==
    LET NotEmpty(v) == v # ""
    IN  SelectSeq([r \in 1..Len(rows) |->
                      IF columnIndex <= Len(rows[r])
                      THEN Join(trim(Chars(rows[r][columnIndex]))) ELSE ""],
                  NotEmpty)

\* samples.length ? validateEmailPattern(samples) : 0
agentPatternScore(samples) ==
    IF Len(samples) = 0 THEN Zero ELSE validateEmailPattern(samples)

\* The pairs of header score and pattern score (of up to 6 samples) for which the
\* double headerScore * 0.7 + patternScore * 100 * 0.3 falls just below the half
\* that the exact sum reaches: 85 * 0.7 is 59.49999999999999 in IEEE doubles.
roundsBelowHalf(hdrScore, patternScore) ==
    /\ hdrScore = 85
    /\ \E q \in {<<0, 1>>, <<1, 6>>, <<1, 3>>, <<2, 3>>} : RatioEQ(patternScore, q)

\* Math.round(headerScore * 0.7 + patternScore * 100 * 0.3)
combinedScore(hdrScore, patternScore) ==
    LET exact == (7 * hdrScore * patternScore[2] + 300 * patternScore[1]
                    + 5 * patternScore[2]) \div (10 * patternScore[2])
    IN  IF roundsBelowHalf(hdrScore, patternScore) THEN exact - 1 ELSE exact

\* the candidate the forEach callback builds for the column at position index
agentCandidate(header, index, hdrScore, patternScore) ==
    [header |-> header,
     index |-> index - 1,
     score |-> combinedScore(hdrScore, patternScore),
     headerScore |-> hdrScore,
     patternScore |-> patternScore]

\* a comparison without the MINIMUM_CONFIDENCE test
betterMatchAnyScore(bestMatch, candidate) ==
    IF bestMatch = NoAgent \/ candidate.score > bestMatch.score THEN candidate
    ELSE bestMatch

\* a comparison that lets a later column with the same score replace the best one
laterWinsTies(bestMatch, candidate) ==
    IF candidate.score < MINIMUM_CONFIDENCE THEN bestMatch
    ELSE IF bestMatch = NoAgent \/ candidate.score >= bestMatch.score THEN candidate
    ELSE bestMatch

\* lines 130-142: bestMatch after the callback has seen the candidate
betterMatch(bestMatch, candidate) ==
    IF candidate.score < MINIMUM_CONFIDENCE THEN bestMatch
    ELSE IF bestMatch = NoAgent \/ candidate.score > bestMatch.score THEN candidate
    ELSE bestMatch

\* header.trim().length
isBlankHeader(header) == Len(trim(Chars(header))) = 0

\* headers.forEach from position index on
RECURSIVE detectFrom(_, _, _, _)
detectFrom(hs, rowMatrix, index, bestMatch) ==
    IF index > Len(hs) THEN bestMatch
    ELSE IF isBlankHeader(hs[index]) THEN detectFrom(hs, rowMatrix, index + 1, bestMatch)
    ELSE detectFrom(hs, rowMatrix, index + 1,
                    betterMatch(bestMatch,
                                agentCandidate(hs[index], index, scoreHeader(hs[index]),
                                               agentPatternScore(getColumnSamples(rowMatrix, index)))))

detectAgentEmailColumn(hs, rowMatrix) ==
    IF Len(hs) = 0 THEN NoAgent ELSE detectFrom(hs, rowMatrix, 1, NoAgent)

(***************************************************************************)
(* import-contacts-modal.tsx: resolveDuplicateSuggestions                  *)
(***************************************************************************)
hasPrimary(mapping) == Len(mapping.suggestedMatches) > 0
primaryMatch(mapping) == mapping.suggestedMatches[1]

\* grouped.get(fieldId): the columns whose top suggestion is the field, in column order
groupOf(ms, fieldId) ==
    LET Member(mapping) == hasPrimary(mapping) /\ primaryMatch(mapping).systemFieldId = fieldId
    IN  SelectSeq(ms, Member)

\* the keys of the groups with more than one member
duplicateFields(ms) ==
    {fieldId \in {primaryMatch(ms[i]).systemFieldId : i \in {j \in 1..Len(ms) : hasPrimary(ms[j])}} :
        Len(groupOf(ms, fieldId)) > 1}

\* a comparator that orders the group by column index alone
groupCompareByIndexOnly(a, b) == a.csvIndex - b.csvIndex

\* the comparator of group.sort: a negative result puts a before b
groupCompare(a, b) ==
    LET scoreA == IF hasPrimary(a) THEN primaryMatch(a).score ELSE 0
        scoreB == IF hasPrimary(b) THEN primaryMatch(b).score ELSE 0
    IN  IF scoreA # scoreB THEN scoreB - scoreA ELSE a.csvIndex - b.csvIndex

\* group.sort(comparator): each member comes after the members the comparator puts
\* before it (the comparator never ties two columns: their csvIndex differs)
sortGroup(group) ==
    LET rank(i) == 1 + Cardinality({j \in 1..Len(group) : groupCompare(group[j], group[i]) < 0})
    IN  [p \in 1..Len(group) |-> group[CHOOSE i \in 1..Len(group) : rank(i) = p]]

\* winnerByField.get(fieldId)
winnerIndex(ms, fieldId) == sortGroup(groupOf(ms, fieldId))[1].csvIndex

loserIndices(ms) ==
    UNION {LET sorted == sortGroup(groupOf(ms, fieldId))
           IN  {sorted[i].csvIndex : i \in 2..Len(sorted)} : fieldId \in duplicateFields(ms)}

\* a resolver that leaves the losing column its suggestions
demoteKeepingSuggestions(mapping) ==
    [mapping EXCEPT
        !.selectedField = IF mapping.selectedField = primaryMatch(mapping).systemFieldId
                          THEN Null ELSE mapping.selectedField,
        !.isCustomField = FALSE]

\* what a losing column is returned as
demote(mapping) ==
    [mapping EXCEPT
        !.selectedField = IF mapping.selectedField = primaryMatch(mapping).systemFieldId
                          THEN Null ELSE mapping.selectedField,
        !.suggestedMatches = <<>>,
        !.isCustomField = FALSE]

\* a winner returned as it came
promoteKeepingSelection(mapping) == mapping

\* what the winning column is returned as
promote(mapping) ==
    IF primaryMatch(mapping).confidence = "high"
       /\ mapping.selectedField # primaryMatch(mapping).systemFieldId
    THEN [mapping EXCEPT !.selectedField = primaryMatch(mapping).systemFieldId]
    ELSE mapping

\* the callback without its "winnerIndex === undefined" guard
resolveOneUnguarded(ms, mapping) ==
    IF ~hasPrimary(mapping) THEN mapping
    ELSE IF primaryMatch(mapping).systemFieldId \in duplicateFields(ms)
            /\ mapping.csvIndex = winnerIndex(ms, primaryMatch(mapping).systemFieldId)
    THEN promote(mapping)
    ELSE demote(mapping)

\* the callback of the final mappings.map
resolveOne(ms, mapping) ==
    IF ~hasPrimary(mapping) THEN mapping
    ELSE IF primaryMatch(mapping).systemFieldId \notin duplicateFields(ms) THEN mapping
    ELSE IF mapping.csvIndex = winnerIndex(ms, primaryMatch(mapping).systemFieldId)
    THEN promote(mapping)
    ELSE demote(mapping)

resolveDuplicateSuggestions(ms) ==
    IF duplicateFields(ms) = {} THEN ms
    ELSE IF loserIndices(ms) = {} THEN ms
    ELSE [i \in 1..Len(ms) |-> resolveOne(ms, ms[i])]

(***************************************************************************)
(* normalizeString applied once and again (specification SpecNormalize).   *)
(***************************************************************************)
NormAlphabet == {"a", "B", " ", "_", "-", "."}

RECURSIVE StringsUpTo(_)
StringsUpTo(n) ==
    IF n = 0 THEN {<<>>}
    ELSE LET shorter == StringsUpTo(n - 1)
         IN  shorter \cup {Append(s, c) : s \in {t \in shorter : Len(t) = n - 1}, c \in NormAlphabet}

IdleSimilarity == simStr1 = <<>> /\ simStr2 = <<>> /\ simResult = Zero
IdleClassifier == pvKind = "email" /\ pvValues = <<>> /\ pvResult = Zero
IdleRerun ==
    /\ priorHeaders = <<>> /\ priorData = <<>> /\ priorMappings = <<>>
    /\ claimedIds = {} /\ rerun = <<>>
IdleAgent == agHeaders = <<>> /\ agRows = <<>> /\ agResult = NoAgent
NoDoc == 0
NoResponse == [status |-> 0, imported |-> 0, merged |-> 0, errors |-> 0, committed |-> FALSE]
IdleImport ==
    /\ payload = Null /\ users = <<>> /\ contacts = {} /\ contactsBefore = {}
    /\ importRows = <<>> /\ detectedAgentColumn = "" /\ rowIndex = 1 /\ lookupStage = 1
    /\ existingContact = NoDoc /\ imported = 0 /\ merged = 0 /\ skipped = 0
    /\ batch = <<>> /\ operationsInBatch = 0 /\ batches = <<>> /\ nextDocId = 1
    /\ response = NoResponse
IdleOthers == IdleSimilarity /\ IdleClassifier /\ IdleRerun /\ IdleAgent /\ IdleImport

IdleScore ==
    /\ scHeader = "" /\ scData = <<>> /\ scField = [id |-> "", label |-> "", type |-> "text"]
    /\ scContext = NoContext /\ scHeaderScore = NoSynonym /\ scMatch = NoMatch
IdleMap ==
    /\ systemFields = <<>> /\ headers = <<>> /\ sampleData = <<>>
    /\ mappings = <<>> /\ resolved = <<>>
IdleNormalize == nsInput = <<>> /\ nsOnce = <<>> /\ nsTwice = <<>>

InitNormalize ==
    /\ pc = "normalize"
    /\ nsInput \in StringsUpTo(MaxStrLen)
    /\ nsOnce = <<>> /\ nsTwice = <<>>
    /\ looseDates = FALSE
    /\ IdleScore /\ IdleMap /\ IdleOthers

NormalizeOnce ==
    /\ pc = "normalize"
    /\ nsOnce' = normalizeString(nsInput)
    /\ pc' = "normalizeAgain"
    /\ UNCHANGED <<otherVars, looseDates, nsInput, nsTwice, scVars, mapVars>>

NormalizeAgain ==
    /\ pc = "normalizeAgain"
    /\ nsTwice' = normalizeString(nsOnce)
    /\ pc' = "normalized"
    /\ UNCHANGED <<otherVars, looseDates, nsInput, nsOnce, scVars, mapVars>>

NextNormalize == NormalizeOnce \/ NormalizeAgain

SpecNormalize == InitNormalize /\ [][NextNormalize]_vars

(***************************************************************************)
(* One createMatch call (specification SpecScore).                         *)
(***************************************************************************)
ScoreHeaders ==
    {"Email", "  EMAIL_", "E-Mail", "Email Address", "Mail", "Phone", "Mobile Number",
     "Cell", "First Name", "first", "Given Name", "Full Name", "Customer FullName",
     "full-name", "Nanana", "aaaaaaaaaaaa", "Emial", "Notes", "", "--"}

ScoreFields ==
    {[id |-> "firstName", label |-> "First Name", type |-> "text"],
     [id |-> "firstName", label |-> "Full Name", type |-> "text"],
     [id |-> "lastName", label |-> "Last Name", type |-> "text"],
     [id |-> "lastName", label |-> "Customer FullName", type |-> "text"],
     [id |-> "phone", label |-> "Phone", type |-> "phone"],
     [id |-> "email", label |-> "Email", type |-> "email"],
     [id |-> "createdOn", label |-> "Created On", type |-> "datetime"],
     [id |-> "fullName", label |-> "Full Name", type |-> "text"],
     [id |-> "nanny", label |-> "Nanny", type |-> "text"],
     [id |-> "grade", label |-> "aab", type |-> "number"],
     [id |-> "mail", label |-> "E mail", type |-> "email"]}

ScoreSamples ==
    {<<>>,
     <<"", " ", "">>,
     <<"ann@x.io", "bob@y.co", "cy@z.org", "di@w.net", "ed@v.com">>,
     <<"ann@x.io", "bob", "cy", "di", "ed">>,
     <<"5551234567", "+1-555-123-4567", "(555) 123-4567">>,
     <<"2024-01-15", "2023-12-31", "n/a", "2022-02-10", "2021-07-04">>,
     <<"12", "1,000", "3.5", "x", "y">>,
     <<"ann", "bob", "cy">>}

InitScore ==
    /\ pc = "score"
    /\ looseDates \in BOOLEAN
    /\ scHeader \in ScoreHeaders
    /\ scField \in ScoreFields
    /\ scData \in ScoreSamples
    /\ scHeaderScore = NoSynonym /\ scContext = NoContext /\ scMatch = NoMatch
    /\ IdleNormalize /\ IdleMap /\ IdleOthers

CreateMatch ==
    /\ pc = "score"
    /\ scHeaderScore' = IF Len(normalizeString(Chars(scHeader))) = 0 THEN NoSynonym
                        ELSE headerScore(scHeader, scField)
    /\ scContext' = calculateScoreContext(scHeader, scData, scField)
    /\ scMatch' = createMatch(scHeader, scData, scField)
    /\ pc' = "scored"
    /\ UNCHANGED <<otherVars, looseDates, nsVars, scHeader, scData, scField, mapVars>>

NextScore == CreateMatch

SpecScore == InitScore /\ [][NextScore]_vars

(***************************************************************************)
(* mapColumns followed by resolveDuplicateSuggestions, as the mapping      *)
(* effect of ImportContactsModal runs them (specification Spec).           *)
(***************************************************************************)
Catalogs ==
    {<<>>,
     <<[id |-> "firstName", label |-> "First Name", type |-> "text"],
       [id |-> "lastName", label |-> "Last Name", type |-> "text"],
       [id |-> "phone", label |-> "Phone", type |-> "phone"],
       [id |-> "email", label |-> "Email", type |-> "email"]>>,
     <<[id |-> "email", label |-> "Email", type |-> "email"],
       [id |-> "workEmail", label |-> "Work Email", type |-> "email"],
       [id |-> "name", label |-> "Name", type |-> "text"],
       [id |-> "phone", label |-> "Phone", type |-> "phone"],
       [id |-> "score", label |-> "Score", type |-> "number"]>>}

Emails == <<"ann@x.io", "bob@y.co", "cy@z.org">>
FewEmails == <<"ann@x.io", "bob", "cy", "di", "ed">>
Words == <<"ann", "bob", "">>
Phones == <<"5551234567", "+1-555-123-4567", "(555) 123-4567">>

ColumnChoices ==
    {[header |-> "Email", cells |-> Emails],
     [header |-> "E-Mail", cells |-> Emails],
     [header |-> "Mail", cells |-> FewEmails],
     [header |-> "Work Email", cells |-> Emails],
     [header |-> "Phone", cells |-> Words],
     [header |-> "Mobile Number", cells |-> Phones],
     [header |-> "Full Name", cells |-> Words],
     [header |-> "Notes", cells |-> Emails]}

ColumnLists == UNION {[1..n -> ColumnChoices] : n \in 0..MaxCols}

\* the rows of the sheet whose columns are cols
rowsOf(cols) ==
    LET lengths == {Len(cols[c].cells) : c \in 1..Len(cols)}
        height == IF lengths = {} THEN 0 ELSE CHOOSE h \in lengths : \A g \in lengths : h >= g
    IN  [r \in 1..height |->
            [c \in 1..Len(cols) |-> IF r <= Len(cols[c].cells) THEN cols[c].cells[r] ELSE ""]]

\* No field of Catalogs is a datetime field: the host's Date parser is never asked.
Init ==
    /\ pc = "parsed"
    /\ looseDates = FALSE
    /\ systemFields \in Catalogs
    /\ \E cols \in ColumnLists :
          /\ headers = [c \in 1..Len(cols) |-> cols[c].header]
          /\ sampleData = rowsOf(cols)
    /\ mappings = <<>> /\ resolved = <<>>
    /\ IdleNormalize /\ IdleScore /\ IdleOthers

MapColumns ==
    /\ pc = "parsed"
    /\ mappings' = mapColumns(systemFields, headers, sampleData)
    /\ pc' = "mapped"
    /\ UNCHANGED <<otherVars, looseDates, nsVars, scVars, systemFields, headers, sampleData, resolved>>

ResolveDuplicates ==
    /\ pc = "mapped"
    /\ resolved' = resolveDuplicateSuggestions(mappings)
    /\ pc' = "resolved"
    /\ UNCHANGED <<otherVars, looseDates, nsVars, scVars, systemFields, headers, sampleData, mappings>>

Next == MapColumns \/ ResolveDuplicates

Spec == Init /\ [][Next]_vars

(***************************************************************************)
(* One calculateStringSimilarity call (specification SpecSimilarity).      *)
(***************************************************************************)
MaxSimLen == 3
SimAlphabet == {"a", "b"}

RECURSIVE StringsOver(_, _)
StringsOver(alphabet, n) ==
    IF n = 0 THEN {<<>>}
    ELSE LET shorter == StringsOver(alphabet, n - 1)
         IN  shorter \cup {Append(s, c) : s \in {t \in shorter : Len(t) = n - 1}, c \in alphabet}

InitSimilarity ==
    /\ pc = "similarity"
    /\ looseDates = FALSE
    /\ simStr1 \in StringsOver(SimAlphabet, MaxSimLen)
    /\ simStr2 \in StringsOver(SimAlphabet, MaxSimLen)
    /\ simResult = Zero
    /\ IdleNormalize /\ IdleScore /\ IdleMap
    /\ IdleClassifier /\ IdleRerun /\ IdleAgent /\ IdleImport

CalculateStringSimilarity ==
    /\ pc = "similarity"
    /\ simResult' = calculateStringSimilarity(simStr1, simStr2)
    /\ pc' = "compared"
    /\ UNCHANGED <<importVars, looseDates, nsVars, scVars, mapVars, simStr1, simStr2, pvVars,
                   rerunVars, agVars>>

NextSimilarity == CalculateStringSimilarity

SpecSimilarity == InitSimilarity /\ [][NextSimilarity]_vars

(***************************************************************************)
(* One call of a content classifier (specification SpecClassifier).        *)
(***************************************************************************)
MaxValues == 10
ClassifierKinds == {"email", "phone", "datetime", "number"}
BlankValues == {"", "  "}

\* values the classifier of the kind accepts on every host
GoodValues(kind) ==
    CASE kind = "email" -> {"ann@x.io", " bob@y.co "}
      [] kind = "phone" -> {"5551234567", "+1-555-123-4567"}
      [] kind = "datetime" -> {"2024-01-15", "2023-12-31"}
      [] kind = "number" -> {"12", "1,000"}

\* non-blank values the classifier of the kind rejects on every host
BadValues(kind) ==
    CASE kind = "email" -> {"bob", "a@b"}
      [] kind = "phone" -> {"12345", "call me"}
      [] kind = "datetime" -> {"n/a", "soon"}
      [] kind = "number" -> {"x", "n/a"}

\* a column of g accepted values, b rejected values and z blank cells
columnOf(good, g, bad, b, blank, z) ==
    [i \in 1..(g + b + z) |-> IF i <= g THEN good ELSE IF i <= g + b THEN bad ELSE blank]

\* the exported classifier for the kind
validatePattern(kind, values) ==
    CASE kind = "email" -> validateEmailPattern(values)
      [] kind = "phone" -> validatePhonePattern(values)
      [] kind = "datetime" -> validateDatePattern(values)
      [] kind = "number" -> validateNumberPattern(values)

InitClassifier ==
    /\ pc = "classify"
    /\ looseDates \in BOOLEAN
    /\ pvKind \in ClassifierKinds
    /\ \E g, b, z \in 0..MaxValues :
          /\ g + b + z <= MaxValues
          /\ \E good \in GoodValues(pvKind), bad \in BadValues(pvKind), blank \in BlankValues :
                pvValues = columnOf(good, g, bad, b, blank, z)
    /\ pvResult = Zero
    /\ IdleNormalize /\ IdleScore /\ IdleMap
    /\ IdleSimilarity /\ IdleRerun /\ IdleAgent /\ IdleImport

ValidatePattern ==
    /\ pc = "classify"
    /\ pvResult' = validatePattern(pvKind, pvValues)
    /\ pc' = "classified"
    /\ UNCHANGED <<importVars, looseDates, nsVars, scVars, mapVars, simVars, pvKind, pvValues,
                   rerunVars, agVars>>

NextClassifier == ValidatePattern

SpecClassifier == InitClassifier /\ [][NextClassifier]_vars

(***************************************************************************)
(* One mapColumns call over a catalog with more than three candidates for  *)
(* a column (specification SpecMap).                                       *)
(***************************************************************************)
MaxMapCols == 2

MapCatalogs ==
    Catalogs \cup
    {<<[id |-> "email", label |-> "Email", type |-> "email"],
       [id |-> "workEmail", label |-> "Work Email", type |-> "email"],
       [id |-> "contactEmail", label |-> "Email Address", type |-> "text"],
       [id |-> "mail", label |-> "Mail", type |-> "text"],
       [id |-> "phone", label |-> "Phone", type |-> "phone"]>>}

MapChoices ==
    {[header |-> "Email", cells |-> <<"ann@x.io", "bob@y.co", "cy@z.org", "di@w.net", "ed@v.com">>],
     [header |-> "E-Mail", cells |-> <<"ann@x.io", "bob@y.co", "cy@z.org", "di@w.net", "ed@v.com">>],
     [header |-> "Work Email", cells |-> <<"ann@x.io", "bob@y.co", "cy@z.org", "di@w.net", "">>],
     [header |-> "Phone", cells |-> <<"5551234567", "+1-555-123-4567", "(555) 123-4567", "", "">>],
     [header |-> "Mobile Number", cells |-> <<"5551234567", "ann", "bob", "cy", "di">>],
     [header |-> "Notes", cells |-> <<"ann", "bob", "cy", "", "">>]}

MapLists == UNION {[1..n -> MapChoices] : n \in 0..MaxMapCols}

InitMap ==
    /\ pc = "mapInput"
    /\ looseDates = FALSE
    /\ systemFields \in MapCatalogs
    /\ \E cols \in MapLists :
          /\ headers = [c \in 1..Len(cols) |-> cols[c].header]
          /\ sampleData = rowsOf(cols)
    /\ mappings = <<>> /\ resolved = <<>>
    /\ IdleNormalize /\ IdleScore /\ IdleOthers

MapColumnsOnly ==
    /\ pc = "mapInput"
    /\ mappings' = mapColumns(systemFields, headers, sampleData)
    /\ pc' = "mapOutput"
    /\ UNCHANGED <<otherVars, looseDates, nsVars, scVars, systemFields, headers, sampleData,
                   resolved>>

NextMap == MapColumnsOnly

SpecMap == InitMap /\ [][NextMap]_vars

(***************************************************************************)
(* Three mapColumns calls on one FieldMapper: the input, another input,    *)
(* the first input again (specification SpecRerun).                        *)
(***************************************************************************)
MaxRerunCols == 2
RerunCatalogs == Catalogs \ {<<>>}
RerunChoices == {c \in ColumnChoices : c.header \in {"Email", "E-Mail", "Phone"}}
RerunLists == UNION {[1..n -> RerunChoices] : n \in 0..MaxRerunCols}

InitRerun ==
    /\ pc = "constructed"
    /\ looseDates = FALSE
    /\ systemFields \in RerunCatalogs
    /\ \E cols \in RerunLists :
          /\ headers = [c \in 1..Len(cols) |-> cols[c].header]
          /\ sampleData = rowsOf(cols)
    /\ \E cols \in RerunLists :
          /\ priorHeaders = [c \in 1..Len(cols) |-> cols[c].header]
          /\ priorData = rowsOf(cols)
    /\ mappings = <<>> /\ resolved = <<>>
    /\ priorMappings = <<>> /\ claimedIds = {} /\ rerun = <<>>
    /\ IdleNormalize /\ IdleScore /\ IdleSimilarity /\ IdleClassifier /\ IdleAgent
    /\ IdleImport

FirstCall ==
    /\ pc = "constructed"
    /\ mappings' = mapColumnsAfter(claimedIds, systemFields, headers, sampleData)
    /\ claimedIds' = claimedWhenDone(claimedIds, mappings')
    /\ pc' = "calledOnce"
    /\ UNCHANGED <<importVars, looseDates, nsVars, scVars, systemFields, headers, sampleData, resolved,
                   simVars, pvVars, priorHeaders, priorData, priorMappings, rerun, agVars>>

OtherCall ==
    /\ pc = "calledOnce"
    /\ priorMappings' = mapColumnsAfter(claimedIds, systemFields, priorHeaders, priorData)
    /\ claimedIds' = claimedWhenDone(claimedIds, priorMappings')
    /\ pc' = "calledOther"
    /\ UNCHANGED <<importVars, looseDates, nsVars, scVars, mapVars, simVars, pvVars, priorHeaders,
                   priorData, rerun, agVars>>

SameCall ==
    /\ pc = "calledOther"
    /\ rerun' = mapColumnsAfter(claimedIds, systemFields, headers, sampleData)
    /\ claimedIds' = claimedWhenDone(claimedIds, rerun')
    /\ pc' = "calledAgain"
    /\ UNCHANGED <<importVars, looseDates, nsVars, scVars, mapVars, simVars, pvVars, priorHeaders,
                   priorData, priorMappings, agVars>>

NextRerun == FirstCall \/ OtherCall \/ SameCall

SpecRerun == InitRerun /\ [][NextRerun]_vars

(***************************************************************************)
(* One detectAgentEmailColumn call (specification SpecAgent).              *)
(***************************************************************************)
MaxAgentCols == 3

AgentChoices ==
    {[header |-> "Agent Email", cells |-> <<"ann@x.io", " bob@y.co", "cy@z.org">>],
     [header |-> "Agent Email", cells |-> <<"ann@x.io", "bob", "cy">>],
     [header |-> "Owner", cells |-> <<"ann@x.io", "bob@y.co", "cy@z.org">>],
     [header |-> "Email", cells |-> <<"ann@x.io", "bob@y.co", "cy@z.org">>],
     [header |-> "Rep Mail", cells |-> <<"ann@x.io", "bob", "cy">>],
     [header |-> "  ", cells |-> <<"ann@x.io", "bob@y.co", "cy@z.org">>],
     [header |-> "Manager", cells |-> <<"", " ", "">>]}

AgentLists == UNION {[1..n -> AgentChoices] : n \in 0..MaxAgentCols}

InitAgent ==
    /\ pc = "detect"
    /\ looseDates = FALSE
    /\ \E cols \in AgentLists :
          /\ agHeaders = [c \in 1..Len(cols) |-> cols[c].header]
          /\ agRows = rowsOf(cols)
    /\ agResult = NoAgent
    /\ IdleNormalize /\ IdleScore /\ IdleMap
    /\ IdleSimilarity /\ IdleClassifier /\ IdleRerun /\ IdleImport

DetectAgentEmailColumn ==
    /\ pc = "detect"
    /\ agResult' = detectAgentEmailColumn(agHeaders, agRows)
    /\ pc' = "detected"
    /\ UNCHANGED <<importVars, looseDates, nsVars, scVars, mapVars, simVars, pvVars, rerunVars,
                   agHeaders, agRows>>

NextAgent == DetectAgentEmailColumn

SpecAgent == InitAgent /\ [][NextAgent]_vars

(***************************************************************************)
(* detectAgentEmailColumn over sheets with owner headers of every rank     *)
(* (specification SpecOwner).                                              *)
(***************************************************************************)
MaxOwnerCols == 2

OwnerChoices ==
    {[header |-> "Agent Email", cells |-> <<"ann@x.io", " bob@y.co", "">>],
     [header |-> "Agent Email", cells |-> <<"", " ", "">>],
     [header |-> "assigned_to_agent", cells |-> <<"ann@x.io", " bob@y.co", "cy@z.org">>],
     [header |-> "assigned_to_agent", cells |-> <<"ann", "bob", "">>],
     [header |-> "Sales Rep", cells |-> <<"ann@x.io", " bob@y.co", "cy@z.org">>],
     [header |-> "Owner", cells |-> <<"ann", "bob", "">>],
     [header |-> "Email", cells |-> <<"ann@x.io", " bob@y.co", "cy@z.org">>],
     [header |-> "Contact", cells |-> <<"ann", "bob", "">>]}

OwnerLists == UNION {[1..n -> OwnerChoices] : n \in 0..MaxOwnerCols}

InitOwner ==
    /\ pc = "detect"
    /\ looseDates = FALSE
    /\ \E cols \in OwnerLists :
          /\ agHeaders = [c \in 1..Len(cols) |-> cols[c].header]
          /\ agRows = rowsOf(cols)
    /\ agResult = NoAgent
    /\ IdleNormalize /\ IdleScore /\ IdleMap
    /\ IdleSimilarity /\ IdleClassifier /\ IdleRerun /\ IdleImport

SpecOwner == InitOwner /\ [][NextAgent]_vars

(***************************************************************************)
(* detectAgentEmailColumn over one long column with blank cells            *)
(* (specification SpecSamples).                                            *)
(***************************************************************************)
MaxSampleRows == 20

InitSamples ==
    /\ pc = "detect"
    /\ looseDates = FALSE
    /\ agHeaders = <<"Agent Email">>
    /\ \E g, b, z \in 0..MaxSampleRows :
          /\ g + b + z <= MaxSampleRows
          /\ \E good \in {"ann@x.io", " bob@y.co"}, bad \in {"a@b"}, blank \in BlankValues :
                agRows = [r \in 1..(g + b + z) |->
                             <<columnOf(good, g, bad, b, blank, z)[r]>>]
    /\ agResult = NoAgent
    /\ IdleNormalize /\ IdleScore /\ IdleMap
    /\ IdleSimilarity /\ IdleClassifier /\ IdleRerun /\ IdleImport

SpecSamples == InitSamples /\ [][NextAgent]_vars

(***************************************************************************)
(* validatePhonePattern over values around the ten-digit limit             *)
(* (specification SpecPhone).                                              *)
(***************************************************************************)
MaxPhoneValues == 2

PhoneValues ==
    {"5551234567", "555-123-4567", "(555) 123-4567", "+1-555-123-4567",
     "+123456789", "123456789", "123-456-789", "call me"}

InitPhone ==
    /\ pc = "classify"
    /\ looseDates = FALSE
    /\ pvKind = "phone"
    /\ pvValues \in UNION {[1..n -> PhoneValues] : n \in 0..MaxPhoneValues}
    /\ pvResult = Zero
    /\ IdleNormalize /\ IdleScore /\ IdleMap
    /\ IdleSimilarity /\ IdleRerun /\ IdleAgent /\ IdleImport

SpecPhone == InitPhone /\ [][NextClassifier]_vars

(***************************************************************************)
(* The contacts import route, POST (specification SpecImport).             *)
(***************************************************************************)
BATCH_LIMIT == 400

\* the fields a contact document of the model can hold
DocFields == {"agentUid", "email", "phone", "createdOn", "updatedOn", "emailSearch",
              "phoneSearch"}

\* new Date().toISOString(), a text no cell of a file holds
nowIso == "<now>"

trimString(v) == Join(trim(Chars(v)))
lowerString(v) == Join(toLowerCase(Chars(v)))
\* .replace(PHONE_SANITIZE_REGEX, "")
sanitizePhone(v) == Join(SelectSeq(Chars(v), IsDigit))

\* the items in the order of their first occurrence
RECURSIVE uniqueFrom(_, _)
uniqueFrom(items, seen) ==
    IF Len(items) = 0 THEN seen
    ELSE uniqueFrom(Tail(items),
                    IF Head(items) \in Range(seen) THEN seen ELSE Append(seen, Head(items)))

normalizeHeaders(hs) ==
    LET NotBlank(header) == header # ""
    IN  uniqueFrom(SelectSeq([i \in 1..Len(hs) |-> trimString(hs[i])], NotBlank), <<>>)

normalizeMappings(ms) ==
    LET Kept(mapping) ==
            mapping.csvColumn # "" /\ mapping.fieldId # "" /\ mapping.fieldId # "agentUid"
    IN  SelectSeq([i \in 1..Len(ms) |-> [csvColumn |-> trimString(ms[i].csvColumn),
                                         fieldId |-> trimString(ms[i].fieldId)]], Kept)

\* Array.from(new Set([...headers, ...mappings.map(mapping => mapping.csvColumn)]))
columnSet(hs, ms) == uniqueFrom(hs \o [i \in 1..Len(ms) |-> ms[i].csvColumn], <<>>)

\* source[column], "" when the row has no such key
cellOf(source, column) == IF column \in DOMAIN source THEN source[column] ELSE ""

normalizeRows(rs, columns) ==
    LET NotEmpty(row) == \E column \in DOMAIN row : row[column] # ""
    IN  SelectSeq([i \in 1..Len(rs) |->
                      [column \in Range(columns) |-> trimString(cellOf(rs[i], column))]],
                  NotEmpty)

objectRowsToMatrix(hs, rs) ==
    [r \in 1..Len(rs) |-> [c \in 1..Len(hs) |-> cellOf(rs[r], hs[c])]]

\* lines 237-248: the header named by payload.agentColumn, "" when there is none
matchedHeader(hs, agentColumn) ==
    LET hits == {i \in 1..Len(hs) : lowerString(hs[i]) = lowerString(agentColumn)}
    IN  IF agentColumn = "" \/ hits = {} THEN ""
        ELSE hs[CHOOSE i \in hits : \A j \in hits : i <= j]

\* lines 237-260: detectedAgentColumn, Null where the route answers 422
agentColumnOf(hs, rs, agentColumn) ==
    IF matchedHeader(hs, agentColumn) # "" THEN matchedHeader(hs, agentColumn)
    ELSE detectAgentEmailColumn(hs, objectRowsToMatrix(hs, firstN(rs, 200))).header

\* lines 269-283: the keys of agentByEmail
agentEmails(us) ==
    {lowerString(trimString(us[i].email)) : i \in 1..Len(us)} \ {""}

\* agentByEmail.get(email).uid: the last user of the snapshot with the address
agentUidOf(us, email) ==
    LET hits == {i \in 1..Len(us) : lowerString(trimString(us[i].email)) = email}
        last == CHOOSE i \in hits : \A j \in hits : j <= i
    IN  IF trimString(us[last].uid) # "" THEN trimString(us[last].uid) ELSE us[last].id

\* (row[detectedAgentColumn] ?? "").toLowerCase().trim()
agentEmailOf(row, agentColumn) == trimString(lowerString(cellOf(row, agentColumn)))

\* lines 292-295: the entries of mappingByColumn, one per column in the order of the
\* column's first mapping, with the field of its last mapping
mappingByColumn(ms) ==
    LET columns == uniqueFrom([i \in 1..Len(ms) |-> ms[i].csvColumn], <<>>)
        lastOf(column) == CHOOSE i \in 1..Len(ms) :
                              /\ ms[i].csvColumn = column
                              /\ \A j \in 1..Len(ms) : ms[j].csvColumn = column => j <= i
    IN  [k \in 1..Len(columns) |->
            [csvColumn |-> columns[k], fieldId |-> ms[lastOf(columns[k])].fieldId]]

\* lines 325-331: what the loop over mappingByColumn leaves in baseContact[fieldId]
mappedValue(row, entries, fieldId) ==
    LET hits == {k \in 1..Len(entries) :
                    entries[k].fieldId = fieldId /\ cellOf(row, entries[k].csvColumn) # ""}
    IN  IF hits = {} THEN Null
        ELSE cellOf(row, entries[CHOOSE k \in hits : \A j \in hits : j <= k].csvColumn)

\* lines 321-348: baseContact, Null for a key it does not have
baseContactOf(row, entries, agentUid) ==
    [field \in DocFields |->
        IF field = "agentUid" THEN agentUid
        ELSE IF field \in {"email", "phone"} /\ mappedValue(row, entries, field) # Null
        THEN trimString(mappedValue(row, entries, field))
        ELSE mappedValue(row, entries, field)]

emailValueOf(baseContact) == IF baseContact.email = Null THEN "" ELSE baseContact.email
phoneValueOf(baseContact) == IF baseContact.phone = Null THEN "" ELSE baseContact.phone

\* the fields and the values of the four lookups of findExistingContact
lookupFields == <<"email", "emailSearch", "phone", "phoneSearch">>
lookupValues(baseContact) ==
    <<emailValueOf(baseContact), lowerString(emailValueOf(baseContact)),
      phoneValueOf(baseContact), sanitizePhone(phoneValueOf(baseContact))>>

\* the first lookup from stage on that queries the collection (runLookup returns null
\* at once for an empty value), 5 when there is none
nextLookup(values, stage) ==
    IF \E s \in stage..4 : values[s] # ""
    THEN CHOOSE s \in stage..4 : values[s] # "" /\ \A t \in stage..(s - 1) : values[t] = ""
    ELSE 5

\* collection.where(field, "==", value).limit(1).get(): the ids it may return
runLookup(collection, field, value) ==
    {c.id : c \in {d \in collection : d.doc[field] = value}}

\* lines 360-369
updateDocOf(baseContact) ==
    [baseContact EXCEPT
        !["updatedOn"] = nowIso,
        !["emailSearch"] = IF lowerString(emailValueOf(baseContact)) # ""
                           THEN lowerString(emailValueOf(baseContact)) ELSE @,
        !["phoneSearch"] = IF sanitizePhone(phoneValueOf(baseContact)) # ""
                           THEN sanitizePhone(phoneValueOf(baseContact)) ELSE @]

\* lines 375-385
contactDocOf(baseContact) == [updateDocOf(baseContact) EXCEPT !["createdOn"] = nowIso]

\* the operation the row adds to the batch
operationOf(baseContact, existing, newId) ==
    IF existing # NoDoc
    THEN [kind |-> "update", ref |-> existing, doc |-> updateDocOf(baseContact)]
    ELSE [kind |-> "set", ref |-> newId, doc |-> contactDocOf(baseContact)]

\* DocumentReference.update: the keys of the update replace those of the document
updated(doc, updateDoc) ==
    [field \in DocFields |-> IF updateDoc[field] # Null THEN updateDoc[field] ELSE doc[field]]

RECURSIVE updatedByAll(_, _)
updatedByAll(doc, updates) ==
    IF Len(updates) = 0 THEN doc
    ELSE updatedByAll(updated(doc, Head(updates).doc), Tail(updates))

applyUpdates(collection, updates) ==
    {[id |-> c.id,
      doc |-> LET Touches(op) == op.ref = c.id
              IN  updatedByAll(c.doc, SelectSeq(updates, Touches))] : c \in collection}

\* WriteBatch.commit: the operations of the batch, atomically
commitBatch(collection, ops) ==
    LET IsUpdate(op) == op.kind = "update"
    IN  applyUpdates(collection \cup {[id |-> ops[i].ref, doc |-> ops[i].doc] :
                                         i \in {k \in 1..Len(ops) : ops[k].kind = "set"}},
                     SelectSeq(ops, IsUpdate))

\* a response that waits for no commit
notAwaited(pushed) == TRUE

\* await Promise.all(batches) has returned
allCommitted(pushed) == \A k \in 1..Len(pushed) : pushed[k].state = "committed"

MaxImportRows == 2

ImportHeaders == <<"Email", " Phone", "Created", "Owner", "Email">>

MappingChoices ==
    {<<[csvColumn |-> "Email", fieldId |-> "email"],
       [csvColumn |-> "Phone", fieldId |-> "phone"]>>,
     <<[csvColumn |-> "Email", fieldId |-> " email "],
       [csvColumn |-> "Created", fieldId |-> "createdOn"]>>,
     <<[csvColumn |-> "Owner", fieldId |-> "agentUid"]>>}

SheetRow(email, phone, created, owner) ==
    [Email |-> email, Phone |-> phone, Created |-> created, Owner |-> owner]

RowKinds ==
    {SheetRow("a@x.io", "", "2001", "agent@k.io"),
     SheetRow(" A@x.io", "555-1234", "", "Agent@K.io "),
     SheetRow("", "(555) 1234", "2002", "agent@k.io"),
     SheetRow("b@y.co", "", "", ""),
     SheetRow("", "", "", "")}

\* a row that names an agent and neither an address nor a number
BulkRow == SheetRow("", "", "", "agent@k.io")

RowLists == UNION {[1..n -> RowKinds] : n \in 0..MaxImportRows}
RepeatLists == UNION {[1..n -> {SheetRow("a@x.io", "", "2001", "agent@k.io")}] :
                         n \in 1..MaxImportRows}

\* requests of a few rows, and requests in which BATCH_LIMIT - 1 bulk rows follow the
\* first row
Payloads ==
    [headers : {<<>>, ImportHeaders}, mappings : MappingChoices, rows : RowLists,
     bulk : {0}, agentColumn : {"owner", ""}, commit : BOOLEAN]
    \cup
    [headers : {ImportHeaders},
     mappings : {<<[csvColumn |-> "Email", fieldId |-> "email"],
                   [csvColumn |-> "Phone", fieldId |-> "phone"]>>},
     rows : RepeatLists, bulk : {BATCH_LIMIT - 1}, agentColumn : {"owner"}, commit : {TRUE}]

\* payload.rows
payloadRows(body) ==
    IF body.bulk = 0 THEN body.rows
    ELSE <<Head(body.rows)>> \o [i \in 1..body.bulk |-> BulkRow] \o Tail(body.rows)

UserChoices == {<<>>, <<[id |-> "u1", email |-> "Agent@K.io ", uid |-> ""]>>}

ContactStores ==
    {{},
     {[id |-> 1,
       doc |-> [agentUid |-> "u0", email |-> "a@x.io", phone |-> "555-1234",
                createdOn |-> "2019", updatedOn |-> "2019", emailSearch |-> "a@x.io",
                phoneSearch |-> "5551234"]]}}

\* the variables of the mapping engine, which the route leaves alone
engineVars == <<looseDates, nsVars, scVars, mapVars, simVars, pvVars, rerunVars, agVars>>

InitImport ==
    /\ pc = "request"
    /\ looseDates = FALSE
    /\ payload \in Payloads
    /\ users \in UserChoices
    /\ contacts \in ContactStores
    /\ contactsBefore = contacts
    /\ nextDocId = Cardinality(contacts) + 1
    /\ importRows = <<>> /\ detectedAgentColumn = "" /\ rowIndex = 1 /\ lookupStage = 1
    /\ existingContact = NoDoc /\ imported = 0 /\ merged = 0 /\ skipped = 0
    /\ batch = <<>> /\ operationsInBatch = 0 /\ batches = <<>>
    /\ response = NoResponse
    /\ IdleNormalize /\ IdleScore /\ IdleMap
    /\ IdleSimilarity /\ IdleClassifier /\ IdleRerun /\ IdleAgent

\* an early return with an error status
Reject(status) ==
    /\ pc' = "rejected"
    /\ response' = [NoResponse EXCEPT !.status = status]
    /\ UNCHANGED <<importRows, detectedAgentColumn>>

\* lines 250-290
Admit(rs, agentColumn) ==
    IF agentColumn = Null THEN Reject(422)
    ELSE IF agentEmails(users) = {} THEN Reject(409)
    ELSE /\ pc' = "row"
         /\ importRows' = rs
         /\ detectedAgentColumn' = agentColumn
         /\ UNCHANGED response

\* lines 230-248
ValidateRows(hs, rs) ==
    IF Len(rs) = 0 THEN Reject(400)
    ELSE Admit(rs, agentColumnOf(hs, rs, trimString(payload.agentColumn)))

\* lines 211-228
ValidateWith(hs, ms) ==
    IF Len(hs) = 0 \/ Len(ms) = 0 THEN Reject(400)
    ELSE ValidateRows(hs, normalizeRows(payloadRows(payload), columnSet(hs, ms)))

\* lines 207-300: the request up to the loop over its rows
Validate ==
    /\ pc = "request"
    /\ ValidateWith(normalizeHeaders(payload.headers), normalizeMappings(payload.mappings))
    /\ UNCHANGED <<engineVars, payload, users, contacts, contactsBefore, rowIndex,
                   lookupStage, existingContact, imported, merged, skipped, batch,
                   operationsInBatch, batches, nextDocId>>

\* baseContact of the row the loop is at
rowContact ==
    baseContactOf(importRows[rowIndex],
                  mappingByColumn(normalizeMappings(payload.mappings)),
                  agentUidOf(users, agentEmailOf(importRows[rowIndex], detectedAgentColumn)))

\* the loop moves to the next row, or ends
NextRow ==
    /\ rowIndex' = rowIndex + 1
    /\ pc' = IF rowIndex = Len(importRows) THEN "flush" ELSE "row"

\* lines 310-357: a row up to the first query of findExistingContact
BeginRow ==
    /\ pc = "row"
    /\ IF agentEmailOf(importRows[rowIndex], detectedAgentColumn) \notin agentEmails(users)
       THEN /\ skipped' = skipped + 1
            /\ NextRow
            /\ UNCHANGED <<lookupStage, existingContact>>
       ELSE /\ lookupStage' = nextLookup(lookupValues(rowContact), 1)
            /\ pc' = IF lookupStage' = 5 THEN "write" ELSE "lookup"
            /\ existingContact' = NoDoc
            /\ UNCHANGED <<skipped, rowIndex>>
    /\ UNCHANGED <<engineVars, payload, users, contacts, contactsBefore, importRows,
                   detectedAgentColumn, imported, merged, batch, operationsInBatch,
                   batches, nextDocId, response>>

\* lines 158-183: the query in flight is answered from the collection as it is now
RunLookup ==
    /\ pc = "lookup"
    /\ \E found \in runLookup(contacts, lookupFields[lookupStage],
                              lookupValues(rowContact)[lookupStage]) \cup {NoDoc} :
          /\ found = NoDoc <=> runLookup(contacts, lookupFields[lookupStage],
                                         lookupValues(rowContact)[lookupStage]) = {}
          /\ IF found # NoDoc
             THEN /\ existingContact' = found
                  /\ pc' = "write"
                  /\ UNCHANGED lookupStage
             ELSE /\ lookupStage' = nextLookup(lookupValues(rowContact), lookupStage + 1)
                  /\ pc' = IF lookupStage' = 5 THEN "write" ELSE "lookup"
                  /\ UNCHANGED existingContact
    /\ UNCHANGED <<engineVars, payload, users, contacts, contactsBefore, importRows,
                   detectedAgentColumn, rowIndex, imported, merged, skipped, batch,
                   operationsInBatch, batches, nextDocId, response>>

\* lines 393-401: the operation joins the batch, and a full batch is committed
\* without being awaited
AddToBatch(op) ==
    IF operationsInBatch + 1 >= BATCH_LIMIT
    THEN /\ batches' = Append(batches, [ops |-> Append(batch, op), state |-> "pending"])
         /\ batch' = <<>>
         /\ operationsInBatch' = 0
    ELSE /\ batch' = Append(batch, op)
         /\ operationsInBatch' = operationsInBatch + 1
         /\ UNCHANGED batches

\* lines 359-401: the row is merged or created
WriteRow ==
    /\ pc = "write"
    /\ IF existingContact # NoDoc
       THEN merged' = merged + 1 /\ UNCHANGED imported
       ELSE imported' = imported + 1 /\ UNCHANGED merged
    /\ IF payload.commit
       THEN /\ AddToBatch(operationOf(rowContact, existingContact, nextDocId))
            /\ nextDocId' = IF existingContact = NoDoc THEN nextDocId + 1 ELSE nextDocId
       ELSE UNCHANGED <<batch, operationsInBatch, batches, nextDocId>>
    /\ NextRow
    /\ UNCHANGED <<engineVars, payload, users, contacts, contactsBefore, importRows,
                   detectedAgentColumn, lookupStage, existingContact, skipped, response>>

\* lines 404-406: the last batch is committed
Flush ==
    /\ pc = "flush"
    /\ IF payload.commit /\ operationsInBatch > 0
       THEN batches' = Append(batches, [ops |-> batch, state |-> "pending"])
       ELSE UNCHANGED batches
    /\ pc' = "await"
    /\ UNCHANGED <<engineVars, payload, users, contacts, contactsBefore, importRows,
                   detectedAgentColumn, rowIndex, lookupStage, existingContact, imported,
                   merged, skipped, batch, operationsInBatch, nextDocId, response>>

\* a commit that was started reaches the collection
CommitBatch ==
    /\ \E k \in 1..Len(batches) :
          /\ batches[k].state = "pending"
          /\ contacts' = commitBatch(contacts, batches[k].ops)
          /\ batches' = [batches EXCEPT ![k].state = "committed"]
    /\ UNCHANGED <<engineVars, pc, payload, users, contactsBefore, importRows,
                   detectedAgentColumn, rowIndex, lookupStage, existingContact, imported,
                   merged, skipped, batch, operationsInBatch, nextDocId, response>>

\* a commit that was started fails
RejectBatch ==
    /\ \E k \in 1..Len(batches) :
          /\ batches[k].state = "pending"
          /\ batches' = [batches EXCEPT ![k].state = "rejected"]
    /\ UNCHANGED <<engineVars, pc, payload, users, contacts, contactsBefore, importRows,
                   detectedAgentColumn, rowIndex, lookupStage, existingContact, imported,
                   merged, skipped, batch, operationsInBatch, nextDocId, response>>

\* lines 408-419: the counts are returned once every commit has succeeded
Respond ==
    /\ pc = "await"
    /\ allCommitted(batches)
    /\ pc' = "responded"
    /\ response' = [status |-> 200, imported |-> imported, merged |-> merged,
                    errors |-> skipped, committed |-> payload.commit]
    /\ UNCHANGED <<engineVars, payload, users, contacts, contactsBefore, importRows,
                   detectedAgentColumn, rowIndex, lookupStage, existingContact, imported,
                   merged, skipped, batch, operationsInBatch, batches, nextDocId>>

\* lines 420-426: Promise.all rejects with the first failed commit
Fail ==
    /\ pc = "await"
    /\ \E k \in 1..Len(batches) : batches[k].state = "rejected"
    /\ pc' = "failed"
    /\ response' = [NoResponse EXCEPT !.status = 500]
    /\ UNCHANGED <<engineVars, payload, users, contacts, contactsBefore, importRows,
                   detectedAgentColumn, rowIndex, lookupStage, existingContact, imported,
                   merged, skipped, batch, operationsInBatch, batches, nextDocId>>

NextImport ==
    Validate \/ BeginRow \/ RunLookup \/ WriteRow \/ Flush \/ CommitBatch \/ RejectBatch
        \/ Respond \/ Fail

SpecImport == InitImport /\ [][NextImport]_vars

(***************************************************************************)
(* Properties.                                                             *)
(***************************************************************************)
Mapped == pc \in {"mapped", "resolved"}
Resolved == pc = "resolved"
Scored == pc = "scored"

topField(mapping) == IF hasPrimary(mapping) THEN primaryMatch(mapping).systemFieldId ELSE Null
topScore(mapping) == IF hasPrimary(mapping) THEN primaryMatch(mapping).score ELSE 0
topIsHigh(mapping) == hasPrimary(mapping) /\ primaryMatch(mapping).confidence = "high"

\* column i shares its top suggestion with another column of mappings
contested(i) ==
    /\ hasPrimary(mappings[i])
    /\ \E j \in 1..Len(mappings) : j # i /\ topField(mappings[j]) = topField(mappings[i])

\* column j beats column i for the field both suggest first: a higher score, or the
\* same score and a lower index
beats(j, i) ==
    /\ j # i
    /\ topField(mappings[j]) = topField(mappings[i])
    /\ \/ topScore(mappings[j]) > topScore(mappings[i])
       \/ topScore(mappings[j]) = topScore(mappings[i]) /\ j < i

loses(i) == hasPrimary(mappings[i]) /\ \E j \in 1..Len(mappings) : beats(j, i)
wins(i) == contested(i) /\ ~loses(i)

\* C1: one mapColumns result never holds two different columns with the same
\* non-null selectedField.
C1_SelectedFieldUnique ==
    Mapped =>
        \A i, j \in 1..Len(mappings) :
            (i # j /\ mappings[i].selectedField # Null)
                => mappings[i].selectedField # mappings[j].selectedField

\* two columns have the same field as their high-confidence top suggestion; the
\* earlier one holds it and the later one holds nothing
C1_Witness ==
    /\ pc = "mapped"
    /\ \E i, j \in 1..Len(mappings) :
          /\ i < j
          /\ topIsHigh(mappings[i]) /\ topIsHigh(mappings[j])
          /\ topField(mappings[i]) = topField(mappings[j])
          /\ mappings[i].selectedField = topField(mappings[i])
          /\ mappings[j].selectedField = Null

\* C2: after resolveDuplicateSuggestions no two columns have the same top
\* suggestion, no two columns have the same non-null selectedField, and no column
\* holds a field that another column still suggests first.
C2_OneColumnPerField ==
    Resolved =>
        \A i, j \in 1..Len(resolved) :
            i # j =>
                /\ hasPrimary(resolved[i]) => topField(resolved[i]) # topField(resolved[j])
                /\ resolved[i].selectedField # Null
                      => /\ resolved[i].selectedField # resolved[j].selectedField
                         /\ resolved[i].selectedField # topField(resolved[j])

\* a column that held the contested field lost it to a later, higher-scoring column
C2_Witness ==
    /\ Resolved
    /\ \E i, j \in 1..Len(mappings) :
          /\ i < j /\ beats(j, i)
          /\ mappings[i].selectedField = topField(mappings[i])
          /\ resolved[i].selectedField = Null
          /\ resolved[j].selectedField = topField(mappings[i])

\* C3: every losing column of a contested field is returned with no suggestions,
\* with selectedField null if it was the contested field, and with isCustomField
\* true.
C3_LoserBecomesCustom ==
    Resolved =>
        \A i \in 1..Len(mappings) :
            loses(i) =>
                /\ resolved[i].suggestedMatches = <<>>
                /\ mappings[i].selectedField = topField(mappings[i])
                      => resolved[i].selectedField = Null
                /\ resolved[i].isCustomField = TRUE

\* two columns headed "Email": the second loses and comes back with isCustomField
\* false and no suggestion
C3_Witness ==
    /\ Resolved
    /\ \E i \in 1..Len(mappings) :
          /\ loses(i)
          /\ mappings[i].selectedField = Null
          /\ resolved[i].suggestedMatches = <<>>
          /\ resolved[i].isCustomField = FALSE

\* C4: for every field that several columns suggest first, the winner is the column
\* with the highest top score, the lowest index among equals; it keeps its
\* suggestions, every other column of the group loses them, and if the winner's top
\* match is of high confidence the winner holds the field afterwards.
C4_WinnerByScoreThenIndex ==
    Resolved =>
        \A i \in 1..Len(mappings) :
            /\ wins(i) =>
                  /\ resolved[i].suggestedMatches = mappings[i].suggestedMatches
                  /\ topIsHigh(mappings[i]) => resolved[i].selectedField = topField(mappings[i])
            /\ loses(i) => resolved[i].suggestedMatches = <<>>

\* a later column wins the field on its score and receives it from the resolver
C4_Witness ==
    /\ Resolved
    /\ \E i, j \in 1..Len(mappings) :
          /\ i < j /\ wins(j) /\ loses(i)
          /\ topScore(mappings[j]) > topScore(mappings[i])
          /\ mappings[j].selectedField = Null
          /\ resolved[j].selectedField = topField(mappings[j])
          /\ resolved[j].suggestedMatches # <<>>

\* C5: resolveDuplicateSuggestions returns the columns in their order, and returns
\* unchanged every column without suggestions and every column whose top field is
\* the top suggestion of no other column.
C5_UncontestedUnchanged ==
    Resolved =>
        /\ Len(resolved) = Len(mappings)
        /\ \A i \in 1..Len(mappings) :
              /\ resolved[i].csvIndex = mappings[i].csvIndex
              /\ resolved[i].csvColumn = mappings[i].csvColumn
              /\ ~contested(i) => resolved[i] = mappings[i]

\* the resolver changed one column and left alone a column whose top suggestion no
\* other column shares
C5_Witness ==
    /\ Resolved
    /\ \E i, j \in 1..Len(mappings) :
          /\ resolved[i] # mappings[i]
          /\ ~contested(j) /\ hasPrimary(mappings[j]) /\ resolved[j] = mappings[j]

scNormalizedHeader == normalizeString(Chars(scHeader))
scNormalizedLabel == normalizeString(Chars(scField.label))
scExcluded ==
    /\ scField.id \in {"firstName", "lastName"}
    /\ \/ includes(scNormalizedHeader, Chars("full name"))
       \/ includes(scNormalizedHeader, Chars("fullname"))
scExactLabel == Scored /\ scMatch # NoMatch /\ scNormalizedHeader = scNormalizedLabel /\ ~scExcluded
scWeakPattern ==
    RatioGT(scContext.patternScore, Zero) /\ RatioLT(scContext.patternScore, <<3, 10>>)

\* C6: a header whose normalized form equals the normalized label gives a match of
\* score exactly 100 and reason "Exact header match", whatever the content.
C6_ExactMatchScores100 ==
    scExactLabel => scMatch.score = 100 /\ scMatch.matchReason = "Exact header match"

\* C6 as amended: the reason is "Exact header match" and the score is 100, unless the
\* content pattern score lies strictly between 0 and 0.3, where the score is 60.
C6_ExactMatchScores100Or60 ==
    scExactLabel =>
        /\ scMatch.matchReason = "Exact header match"
        /\ scMatch.score = IF scWeakPattern THEN 60 ELSE 100

\* an exact header over a column where one value in five is an e-mail address
C6_Witness ==
    /\ scExactLabel
    /\ scField.type = "email"
    /\ RatioEQ(scContext.patternScore, <<1, 5>>)
    /\ scMatch.score = 60
    /\ scMatch.matchReason = "Exact header match"

\* C7: every emitted match has a score in 1..100, and a match of the fuzzy fallback
\* that the content did not boost scores at most 60.
C7_ScoreInRange ==
    (Scored /\ scMatch # NoMatch) =>
        /\ scMatch.score \in 1..100
        /\ (scMatch.matchReason = "Similar header name"
               /\ ~RatioGT(scContext.patternScore, <<4, 5>>)) => scMatch.score <= 60

\* the header "aaaaaaaaaaaa" against the label "aab": similarity 22/13, score 101
C7_Witness ==
    /\ Scored /\ scMatch # NoMatch
    /\ scHeader = "aaaaaaaaaaaa" /\ scField.label = "aab"
    /\ scMatch.matchReason = "Similar header name"
    /\ scMatch.score = 101

scSynonymApplies ==
    /\ Scored
    /\ Len(scNormalizedHeader) > 0
    /\ scNormalizedHeader # scNormalizedLabel
    /\ ~includes(scNormalizedHeader, scNormalizedLabel)
    /\ ~includes(scNormalizedLabel, scNormalizedHeader)
scExactSynonym ==
    \E i \in 1..Len(synonymsOf(scField.id)) :
        normalizeString(Chars(synonymsOf(scField.id)[i])) = scNormalizedHeader
scContainedSynonym ==
    \E i \in 1..Len(synonymsOf(scField.id)) :
        LET synonym == normalizeString(Chars(synonymsOf(scField.id)[i]))
        IN  includes(scNormalizedHeader, synonym) \/ includes(synonym, scNormalizedHeader)

\* C8: outside equality and containment with the label, a header that equals a
\* synonym of the field scores 75 wherever the synonym stands in the list, and a
\* header that no synonym equals but some synonym contains, or is contained in,
\* scores 65.
C8_SynonymScore ==
    scSynonymApplies =>
        /\ scExactSynonym => scHeaderScore.score = 75
        /\ (~scExactSynonym /\ scContainedSynonym) => scHeaderScore.score = 65

\* the header "Mobile Number" equals the synonym "mobile number" of phone, and scores
\* 65 on the earlier synonym "mobile"
C8_Witness ==
    /\ scSynonymApplies /\ scExactSynonym
    /\ scHeader = "Mobile Number" /\ scField.id = "phone"
    /\ scHeaderScore = [score |-> 65, reason |-> "Synonym match: \"mobile\""]

\* C9: a header whose normalized form contains "full name" or "fullname" gives no
\* match for the fields firstName and lastName, whatever the label and the content.
C9_FullNameExcluded ==
    (Scored /\ scExcluded) => scMatch = NoMatch

\* the header "Full Name" against a lastName field whose label would have matched
C9_Witness ==
    /\ Scored /\ scExcluded
    /\ scField.id = "lastName"
    /\ includes(scNormalizedHeader, Chars("fullname"))
    /\ scNormalizedHeader = scNormalizedLabel
    /\ scMatch = NoMatch

\* C10: normalizeString is idempotent: normalizing a normalized string changes nothing.
C10_NormalizeIdempotent == pc = "normalized" => nsTwice = nsOnce

\* "a ." normalizes to "a " and that to "a"
C10_Witness ==
    /\ pc = "normalized"
    /\ nsInput = <<"a", " ", ".">>
    /\ nsOnce = <<"a", " ">>
    /\ nsTwice = <<"a">>

Compared == pc = "compared"

\* C11: calculateStringSimilarity(a, b) lies in [0, 1] for all strings a and b.
C11_SimilarityInUnitInterval ==
    Compared => simResult[1] >= 0 /\ simResult[1] <= simResult[2]

\* "aaa" has two bigrams, both found in "aa", which has one: 2 * 2 / (2 + 1)
C11_Witness ==
    /\ Compared
    /\ simStr1 = <<"a", "a", "a">> /\ simStr2 = <<"a", "a">>
    /\ simResult = <<4, 3>>

\* C12: calculateStringSimilarity(a, a) is 1 for every a of length at least 2, and
\* the result is 0 whenever either argument has fewer than 2 characters (the empty
\* string included).
C12_SelfSimilarityAndShortInputs ==
    Compared =>
        /\ (simStr1 = simStr2 /\ Len(simStr1) >= 2) => simResult[1] = simResult[2]
        /\ (Len(simStr1) < 2 \/ Len(simStr2) < 2) => simResult[1] = 0

\* a string with a repeated bigram compared with itself
C12_Witness ==
    /\ Compared
    /\ simStr1 = <<"a", "a", "a">> /\ simStr2 = simStr1
    /\ simResult = <<4, 4>>

Classified == pc = "classified"
pvTotal == Len(pvValues)
pvNonBlank == Cardinality({i \in 1..Len(pvValues) : pvValues[i] \notin BlankValues})
pvAccepted == Cardinality({i \in 1..Len(pvValues) : pvValues[i] \in GoodValues(pvKind)})

\* C13: each classifier returns 0 when there is no value or when the non-blank
\* values are at most one tenth of all values, exactly one tenth included.
C13_SkipAtOneTenth ==
    (Classified /\ (pvTotal = 0 \/ 10 * pvNonBlank <= pvTotal)) => pvResult[1] = 0

\* ten cells, the only non-blank one an accepted value: the classifier returns 1
C13_Witness ==
    /\ Classified
    /\ pvTotal = 10 /\ pvNonBlank = 1 /\ pvAccepted = 1
    /\ pvResult = <<1, 1>>

\* C14: when more than one tenth of the values are non-blank, each classifier returns
\* (accepted non-blank values) / (non-blank values), a value in [0, 1] that is 1 if and
\* only if every non-blank value is accepted.
C14_RatioOfNonBlank ==
    (Classified /\ pvTotal > 0 /\ 10 * pvNonBlank > pvTotal) =>
        /\ pvResult = <<pvAccepted, pvNonBlank>>
        /\ pvResult[1] >= 0 /\ pvResult[1] <= pvResult[2]
        /\ pvResult[1] = pvResult[2] <=> pvAccepted = pvNonBlank

\* a column of e-mail addresses and blank cells scores 1
C14_Witness ==
    /\ Classified
    /\ pvKind = "email"
    /\ pvTotal = 5 /\ pvNonBlank = 3 /\ pvAccepted = 3
    /\ pvResult = <<3, 3>>

MapOutput == pc = "mapOutput"

\* the match of catalog field f for column i, computed for that column alone
candidate(i, f) == createMatch(headers[i], columnDataOf(sampleData, i), systemFields[f])
candidates(i) == {f \in 1..Len(systemFields) : candidate(i, f) # NoMatch}
suggested(i) == mappings[i].suggestedMatches

\* C15: every column of a mapColumns result has at most 3 suggestions, in
\* non-increasing order of score, which are the highest-scoring matches over all
\* catalog fields; isCustomField is true exactly when no field matches or the best
\* score is below 40, and then selectedField is null.
C15_TopThreeAndCustomFlag ==
    MapOutput =>
        \A i \in 1..Len(mappings) :
            /\ Len(suggested(i)) <= 3
            /\ Len(suggested(i)) = IF Cardinality(candidates(i)) < 3
                                   THEN Cardinality(candidates(i)) ELSE 3
            /\ \A k \in 1..(Len(suggested(i)) - 1) :
                  suggested(i)[k].score >= suggested(i)[k + 1].score
            /\ \A k \in 1..Len(suggested(i)) :
                  \E f \in candidates(i) : candidate(i, f) = suggested(i)[k]
            /\ \A f \in candidates(i) :
                  \/ \E k \in 1..Len(suggested(i)) : suggested(i)[k] = candidate(i, f)
                  \/ \A k \in 1..Len(suggested(i)) : suggested(i)[k].score >= candidate(i, f).score
            /\ mappings[i].isCustomField
                  <=> \A f \in candidates(i) : candidate(i, f).score < 40
            /\ mappings[i].isCustomField => mappings[i].selectedField = Null

\* one column has four candidates of which three are suggested, the other has a
\* single candidate scoring 39 and is a custom field
C15_Witness ==
    /\ MapOutput
    /\ \E i, j \in 1..Len(mappings) :
          /\ Cardinality(candidates(i)) = 4 /\ Len(suggested(i)) = 3
          /\ suggested(i)[1].score > suggested(i)[3].score
          /\ Len(suggested(j)) = 1 /\ suggested(j)[1].score = 39
          /\ mappings[j].isCustomField /\ mappings[j].selectedField = Null

\* C16: a column's selectedField is non-null only if it is the field of the column's
\* top suggestion, that suggestion is of high confidence (score >= 75) and no earlier
\* column holds the field; so among columns with the same high-confidence top field
\* the first one holds it, even when a later one scores higher.
C16_FirstHighColumnTakesField ==
    MapOutput =>
        \A i \in 1..Len(mappings) :
            /\ mappings[i].selectedField # Null =>
                  /\ hasPrimary(mappings[i])
                  /\ mappings[i].selectedField = suggested(i)[1].systemFieldId
                  /\ suggested(i)[1].confidence = "high" /\ suggested(i)[1].score >= 75
                  /\ \A j \in 1..(i - 1) : mappings[j].selectedField # mappings[i].selectedField
            /\ (topIsHigh(mappings[i])
                   /\ \A j \in 1..(i - 1) :
                         ~(topIsHigh(mappings[j]) /\ topField(mappings[j]) = topField(mappings[i])))
                  => mappings[i].selectedField = topField(mappings[i])

\* the first column holds the field although the second scores higher for it
C16_Witness ==
    /\ MapOutput
    /\ Len(mappings) = 2
    /\ topIsHigh(mappings[1]) /\ topIsHigh(mappings[2])
    /\ topField(mappings[1]) = topField(mappings[2])
    /\ topScore(mappings[2]) > topScore(mappings[1])
    /\ mappings[1].selectedField = topField(mappings[1])
    /\ mappings[2].selectedField = Null

\* C17: mapColumns returns one ColumnMapping per header, in the order of the headers,
\* csvIndex being the header's position; no header gives an empty result; an empty
\* catalog gives every column no suggestion, no selectedField and isCustomField true.
C17_OneMappingPerHeader ==
    MapOutput =>
        /\ Len(mappings) = Len(headers)
        /\ headers = <<>> => mappings = <<>>
        /\ \A i \in 1..Len(mappings) :
              /\ mappings[i].csvColumn = headers[i]
              /\ mappings[i].csvIndex = i - 1
              /\ systemFields = <<>> =>
                    /\ mappings[i].suggestedMatches = <<>>
                    /\ mappings[i].selectedField = Null
                    /\ mappings[i].isCustomField = TRUE

\* two columns mapped against an empty catalog
C17_Witness ==
    /\ MapOutput
    /\ systemFields = <<>>
    /\ Len(headers) = 2 /\ headers[1] # headers[2]
    /\ Len(mappings) = 2
    /\ mappings[2].csvIndex = 1 /\ mappings[2].isCustomField

\* what mapColumns returns for column i when it is the only column of the sheet
alone(i) ==
    mapColumns(systemFields, <<headers[i]>>,
               [r \in 1..Len(sampleData) |-> <<sampleData[r][i]>>])[1]

\* C19: the suggestedMatches and isCustomField of a column are those the column gets
\* when it is mapped alone: the other columns never change them.
C19_SuggestionsIndependentOfOtherColumns ==
    MapOutput =>
        \A i \in 1..Len(mappings) :
            /\ mappings[i].suggestedMatches = alone(i).suggestedMatches
            /\ mappings[i].isCustomField = alone(i).isCustomField

\* the second column lost its selectedField to the first and kept its suggestions
C19_Witness ==
    /\ MapOutput
    /\ Len(mappings) = 2
    /\ alone(2).selectedField # Null
    /\ mappings[2].selectedField = Null
    /\ mappings[2].suggestedMatches = alone(2).suggestedMatches
    /\ mappings[2].suggestedMatches # <<>>

\* C18: mapColumns called again on the same FieldMapper with the same headers and
\* samples returns what it returned the first time, whatever call was made in between.
C18_SameInputSameOutput ==
    pc = "calledAgain" => rerun = mappings

\* the call in between gave a column the field that a column of the repeated call holds
C18_Witness ==
    /\ pc = "calledAgain"
    /\ priorHeaders # headers
    /\ \E i \in 1..Len(rerun), j \in 1..Len(priorMappings) :
          /\ rerun[i].selectedField # Null
          /\ rerun[i].selectedField = priorMappings[j].selectedField

Detected == pc = "detected"

\* round(headerScore * 0.7 + contentScore * 100 * 0.3) of the column at position i
agCombined(i) ==
    combinedScore(scoreHeader(agHeaders[i]),
                  agentPatternScore(getColumnSamples(agRows, i)))
\* the columns with a non-blank header and a combined score of at least 45
agEligible ==
    {i \in 1..Len(agHeaders) : ~isBlankHeader(agHeaders[i]) /\ agCombined(i) >= 45}

\* C20: detectAgentEmailColumn returns null exactly when no column with a non-blank
\* header has a combined score of at least 45; otherwise it returns the column with
\* the highest combined score, the first of those that share it, with index the
\* column's position in the header list.
C20_BestEligibleColumnFirstOnTies ==
    Detected =>
        /\ agResult = NoAgent <=> agEligible = {}
        /\ agResult # NoAgent =>
              /\ agResult.index + 1 \in agEligible
              /\ agResult.header = agHeaders[agResult.index + 1]
              /\ agResult.score = agCombined(agResult.index + 1)
              /\ \A i \in agEligible :
                    /\ agCombined(i) <= agResult.score
                    /\ agCombined(i) = agResult.score => agResult.index + 1 <= i

\* a column of e-mail addresses without owner evidence in its header, then two
\* columns with different headers that share the highest score: the second column
\* of the sheet is returned
C20_Witness ==
    /\ Detected
    /\ Len(agHeaders) = 3
    /\ agEligible = {2, 3}
    /\ ~isBlankHeader(agHeaders[1]) /\ agCombined(1) = 30
    /\ agCombined(2) = agCombined(3)
    /\ agHeaders[2] # agHeaders[3]
    /\ agResult.index = 1

\* the e-mail addresses the sheets of the model hold
AgentEmails == {"ann@x.io", " bob@y.co", "cy@z.org"}
agCells(i) == [r \in 1..Len(agRows) |-> agRows[r][i]]
agNonBlank(i) == {r \in 1..Len(agRows) : agRows[r][i] \notin BlankValues}
agAccepted(i) == {r \in 1..Len(agRows) : agRows[r][i] \in AgentEmails}

\* the header, as written or normalized, is an entry of EXACT_HEADER_MATCHES
agListed(i) ==
    \E k \in 1..Len(EXACT_HEADER_MATCHES) :
        Chars(EXACT_HEADER_MATCHES[k])
            \in {toLowerCase(trim(Chars(agHeaders[i]))), normalizeString(Chars(agHeaders[i]))}

\* the header names an owner role: a listed phrase, a role token, or the words
\* "assigned" and "agent" inside it
agOwnerEvidence(i) ==
    \/ agListed(i)
    \/ \E k \in 1..Len(AGENT_TOKENS) : Chars(AGENT_TOKENS[k]) \in tokenize(agHeaders[i])
    \/ /\ includes(normalizeString(Chars(agHeaders[i])), Chars("assigned"))
       /\ includes(normalizeString(Chars(agHeaders[i])), Chars("agent"))

\* C21: a column whose header is in the exact phrase list and whose non-blank
\* samples (at least one) are all e-mail addresses, beside columns without owner
\* evidence in their headers, is returned with a score of at least 90.
C21_ListedHeaderScoresNinety ==
    Detected =>
        \A i \in 1..Len(agHeaders) :
            (/\ agListed(i)
             /\ agNonBlank(i) # {} /\ agNonBlank(i) = agAccepted(i)
             /\ \A j \in 1..Len(agHeaders) : j # i => ~agOwnerEvidence(j))
                => agResult.index = i - 1 /\ agResult.score >= 90

\* the listed header "assigned_to_agent" over e-mail addresses, beside "Contact":
\* the column is returned with header score 70 and score 79
C21_Witness ==
    /\ Detected
    /\ agHeaders = <<"assigned_to_agent", "Contact">>
    /\ agNonBlank(1) = agAccepted(1) /\ agNonBlank(1) # {}
    /\ agResult.index = 0 /\ agResult.headerScore = 70 /\ agResult.score = 79

\* C28: a returned column never has header score 0: it has owner evidence in its
\* header and a score in 45..97; and a column whose header scores 70 or more reaches
\* the threshold even when none of its samples is an e-mail address.
C28_NoReturnOnContentAlone ==
    Detected =>
        /\ agResult # NoAgent =>
              /\ agResult.headerScore > 0
              /\ agOwnerEvidence(agResult.index + 1)
              /\ agResult.score \in 45..97
        /\ \A i \in 1..Len(agHeaders) :
              (scoreHeader(agHeaders[i]) >= 70 /\ agAccepted(i) = {})
                  => i \in agEligible /\ agResult # NoAgent

\* a header scoring 70 over words is returned with score 49, ahead of the later
\* "Email" column whose e-mail addresses alone give 30
C28_Witness ==
    /\ Detected
    /\ Len(agHeaders) = 2
    /\ scoreHeader(agHeaders[1]) = 70 /\ agAccepted(1) = {}
    /\ scoreHeader(agHeaders[2]) = 0 /\ agAccepted(2) = agNonBlank(2) /\ agCombined(2) = 30
    /\ agResult.index = 0 /\ agResult.score = 49

\* C24: the content score of a column is (non-blank samples that are e-mail
\* addresses) / (non-blank samples), and 0 without a non-blank sample; blank cells,
\* however many, never zero it.
C24_ContentScoreOverNonBlank ==
    (Detected /\ Len(agHeaders) = 1) =>
        /\ agResult # NoAgent
        /\ agResult.patternScore =
              IF agNonBlank(1) = {} THEN Zero
              ELSE <<Cardinality(agAccepted(1)), Cardinality(agNonBlank(1))>>

\* twenty cells, nineteen of them blank and one an e-mail address: content score 1
C24_Witness ==
    /\ Detected
    /\ Len(agHeaders) = 1 /\ Len(agRows) = 20
    /\ Cardinality(agNonBlank(1)) = 1 /\ agAccepted(1) = agNonBlank(1)
    /\ agResult.patternScore = <<1, 1>>
    /\ agResult.score = 97

\* the number of digits of the value
digitsOf(v) == Cardinality({i \in 1..Len(Chars(v)) : Chars(v)[i] \in DigitSet})
\* the values of the column that have the phone shape and at least ten digits
pvTenDigitPhones ==
    {i \in 1..Len(pvValues) :
        phoneRegexTest(trim(Chars(pvValues[i]))) /\ digitsOf(pvValues[i]) >= 10}

\* C25: validatePhonePattern counts exactly the values that match the shape regex and
\* have at least 10 digits; a value with fewer than 10 digits is never counted.
C25_PhoneNeedsTenDigits ==
    (Classified /\ pvKind = "phone" /\ pvValues # <<>>) =>
        pvResult = <<Cardinality(pvTenDigitPhones), Len(pvValues)>>

\* "+" followed by nine digits is counted as a phone number
C25_Witness ==
    /\ Classified
    /\ pvValues = <<"+123456789">>
    /\ digitsOf(pvValues[1]) = 9
    /\ pvResult = <<1, 1>>

\* C23: the confidence of an emitted match follows from its score: high exactly from
\* 75, medium exactly from 50 to 74, low below; a match that owes its score to a
\* strong content pattern alone (header score below 40) has score 50, is of medium
\* confidence and so is not auto-assigned.
C23_ConfidenceFollowsScore ==
    (Scored /\ scMatch # NoMatch) =>
        /\ scMatch.confidence = "high" <=> scMatch.score >= 75
        /\ scMatch.confidence = "medium" <=> (scMatch.score >= 50 /\ scMatch.score < 75)
        /\ scMatch.confidence = "low" <=> scMatch.score < 50
        /\ (scHeaderScore.score < 40 /\ RatioGT(scContext.patternScore, <<4, 5>>)) =>
              /\ scMatch.score = 50
              /\ scMatch.confidence = "medium"
              /\ ~mayAutoAssign(<<scMatch>>, {})

\* the header "Notes" over e-mail addresses, for an e-mail field
C23_Witness ==
    /\ Scored
    /\ scHeader = "Notes" /\ scField.type = "email"
    /\ scHeaderScore.score = 0
    /\ RatioEQ(scContext.patternScore, <<1, 1>>)
    /\ scMatch.score = 50 /\ scMatch.confidence = "medium"

\* the columns of mappings whose top suggestion is the field, and the one of them
\* with the highest top score, the lowest index among equals
offering(fieldId) == {i \in 1..Len(mappings) : topField(mappings[i]) = fieldId}
bestOffering(fieldId) ==
    CHOOSE i \in offering(fieldId) :
        \A j \in offering(fieldId) :
            \/ j = i
            \/ topScore(mappings[j]) < topScore(mappings[i])
            \/ topScore(mappings[j]) = topScore(mappings[i]) /\ i < j
highTopFields == {topField(mappings[i]) : i \in {k \in 1..Len(mappings) : topIsHigh(mappings[k])}}
holders(fieldId) == {i \in 1..Len(resolved) : resolved[i].selectedField = fieldId}

\* C26: after mapColumns and resolveDuplicateSuggestions, every field that some column
\* suggests first with high confidence is held by exactly one column: the one with the
\* highest top score for it, the lowest index among equals, whichever column the
\* greedy pass gave it to.
C26_HighTopFieldHeldByBest ==
    Resolved =>
        \A fieldId \in highTopFields : holders(fieldId) = {bestOffering(fieldId)}

\* the greedy pass gave the field to an earlier high-confidence column, and a later
\* column with a higher score holds it in the end
C26_Witness ==
    /\ Resolved
    /\ \E i, j \in 1..Len(mappings) :
          /\ i < j
          /\ topIsHigh(mappings[i]) /\ topIsHigh(mappings[j])
          /\ topField(mappings[i]) = topField(mappings[j])
          /\ topScore(mappings[j]) > topScore(mappings[i])
          /\ mappings[i].selectedField = topField(mappings[i])
          /\ holders(topField(mappings[i])) = {j}

written == Range(batch) \cup UNION {Range(batches[k].ops) : k \in 1..Len(batches)}
RECURSIVE pushedOps(_, _)
pushedOps(pushed, kind) ==
    IF Len(pushed) = 0 THEN 0
    ELSE Cardinality({i \in 1..Len(Head(pushed).ops) : Head(pushed).ops[i].kind = kind})
            + pushedOps(Tail(pushed), kind)
Responded == pc = "responded"
storedEmail(collection, email) == {c \in collection : c.doc.email = email}

\* C22: an update the import route writes for an existing contact carries no
\* createdOn, whatever mappings the request supplies.
C22_UpdateLeavesCreatedOn ==
    \A op \in written : op.kind = "update" => op.doc.createdOn = Null

\* a committed import with the column Created mapped to createdOn has replaced the
\* createdOn of the contact it merged a row into
C22_Witness ==
    /\ Responded /\ payload.commit /\ merged = 1
    /\ \E before \in contactsBefore : \E after \in contacts :
          /\ after.id = before.id
          /\ before.doc.createdOn = "2019"
          /\ after.doc.createdOn = "2001"

\* C29: a dry run writes nothing and still counts; a committed import has put one
\* write per imported or merged row into batches of at most BATCH_LIMIT operations,
\* all committed when the counts are returned; the three counts add up to the number
\* of normalized rows.
C29_CountsAndBatches ==
    /\ (pc # "request" /\ ~payload.commit) =>
          contacts = contactsBefore /\ Len(batch) = 0 /\ Len(batches) = 0
    /\ \A k \in 1..Len(batches) : Len(batches[k].ops) \in 1..BATCH_LIMIT
    /\ Responded =>
          /\ response.imported + response.merged + response.errors = Len(importRows)
          /\ response.committed =>
                /\ pushedOps(batches, "set") = response.imported
                /\ pushedOps(batches, "update") = response.merged
                /\ \A k \in 1..Len(batches) : batches[k].state = "committed"

\* a committed import of BATCH_LIMIT + 1 rows: a full batch and a batch of one
C29_Witness ==
    /\ Responded /\ response.committed
    /\ Len(batches) = 2
    /\ Len(batches[1].ops) = BATCH_LIMIT /\ Len(batches[2].ops) = 1
    /\ response.imported + response.merged = BATCH_LIMIT + 1
    /\ Cardinality(contacts) >= BATCH_LIMIT

\* C30: after a committed import, an address that no contact had before is the
\* email of at most one contact.
C30_OneContactPerEmail ==
    (Responded /\ payload.commit) =>
        \A c \in contacts :
            storedEmail(contactsBefore, c.doc.email) = {}
                => Cardinality(storedEmail(contacts, c.doc.email)) <= 1

\* two rows with the address a@x.io were imported into an empty collection and both
\* were created
C30_Witness ==
    /\ Responded /\ payload.commit /\ payload.bulk = 0
    /\ contactsBefore = {}
    /\ Len(importRows) = 2
    /\ importRows[1].Email = "a@x.io" /\ importRows[2].Email = "a@x.io"
    /\ response.imported = 2 /\ response.merged = 0
    /\ Cardinality(storedEmail(contacts, "a@x.io")) = 2

====
